---- MODULE Spec2Model ----
(***************************************************************************)
(* Vault engine of the MyPass password manager: the record store           *)
(* (models/__init__.py, DatabaseManager), the key and cipher               *)
(* (models/security.py, SecurityManager), the duplicate dialog             *)
(* (views/dialogs.py, DuplicateDialog) and the facade                      *)
(* (controllers/password_controller.py, PasswordController).               *)
(*                                                                         *)
(* A string is a sequence of characters; a character is a TLA+ string.     *)
(* "e_acute" / "E_ACUTE" stand for the one-character non-ASCII letters     *)
(* U+00E9 / U+00C9, "TAB" for the tab character.                           *)
(***************************************************************************)
EXTENDS Integers, Sequences, FiniteSets, TLC

(***************************************************************************)
(* Bounds of the model.                                                    *)
(***************************************************************************)
\* datetime.now() is read once per save; saves stop when the clock reaches it.
MaxTime == 3
\* The largest table the duplicate lookup is queried on.
MaxQueryRows == 2
\* The saves the threads of the concurrent program start between them.
MaxConcSaves == 2
\* The largest table get_unique_website_name is called on.
MaxNameRows == 3
\* The process runs of one vault.
MaxRuns == 3

(***************************************************************************)
(* Strings.                                                                *)
(***************************************************************************)
\* str.lower() on one character (Python: full Unicode case mapping).
Lower(c) ==
    CASE c = "A" -> "a"
      [] c = "B" -> "b"
      [] c = "X" -> "x"
      [] c = "Y" -> "y"
      [] c = "E_ACUTE" -> "e_acute"
      [] OTHER -> c

\* str.lower()
LowerStr(s) == [i \in 1..Len(s) |-> Lower(s[i])]

\* Case folding of SQLite's built-in LIKE: ASCII letters only.
LikeFold(c) ==
    CASE c = "A" -> "a"
      [] c = "B" -> "b"
      [] c = "X" -> "x"
      [] c = "Y" -> "y"
      [] OTHER -> c

\* text LIKE pattern: "%" matches any run of characters, "_" any one
\* character, every other character matches itself up to LikeFold.
RECURSIVE LikeMatch(_, _)
LikeMatch(p, t) ==
    IF p = <<>> THEN t = <<>>
    ELSE IF Head(p) = "%"
         THEN LikeMatch(Tail(p), t) \/ (t # <<>> /\ LikeMatch(p, Tail(t)))
         ELSE /\ t # <<>>
              /\ (Head(p) = "_" \/ LikeFold(Head(p)) = LikeFold(Head(t)))
              /\ LikeMatch(Tail(p), Tail(t))

\* column LIKE ? with the parameter f'%{term}%'
LikeContains(term, text) == LikeMatch(<<"%">> \o term \o <<"%">>, text)

\* The whitespace characters of the inputs: the space and the tab.
Whitespace == {" ", "TAB"}

\* str.strip(): leading and trailing whitespace removed.
RECURSIVE LStrip(_)
LStrip(s) == IF s # <<>> /\ Head(s) \in Whitespace THEN LStrip(Tail(s)) ELSE s

RECURSIVE RStrip(_)
RStrip(s) ==
    IF s # <<>> /\ s[Len(s)] \in Whitespace
    THEN RStrip(SubSeq(s, 1, Len(s) - 1)) ELSE s

\* Mutant of Strip: the value is taken as entered.
Strip_none(s) == s

Strip(s) == RStrip(LStrip(s))

\* One decimal digit as a character.
DigitChar(d) ==
    CASE d = 0 -> "0" [] d = 1 -> "1" [] d = 2 -> "2" [] d = 3 -> "3"
      [] d = 4 -> "4" [] d = 5 -> "5" [] d = 6 -> "6" [] d = 7 -> "7"
      [] d = 8 -> "8" [] d = 9 -> "9"

\* str(n) for n >= 0, as the f-string formats the counter.
RECURSIVE IntToStr(_)
IntToStr(n) ==
    IF n < 10 THEN <<DigitChar(n)>>
    ELSE IntToStr(n \div 10) \o <<DigitChar(n % 10)>>

\* f"{base_name} ({counter})"
SuffixedName(base_name, counter) ==
    base_name \o <<" ", "(">> \o IntToStr(counter) \o <<")">>

\* The UTF-8 encoding of a character read as a number; SQLite's BINARY
\* collation compares the encodings byte by byte (memcmp).
CharOrd(c) ==
    CASE c = "TAB" -> 9 [] c = " " -> 32 [] c = "(" -> 40 [] c = ")" -> 41
      [] c = "0" -> 48 [] c = "1" -> 49 [] c = "2" -> 50 [] c = "3" -> 51
      [] c = "4" -> 52 [] c = "5" -> 53 [] c = "6" -> 54 [] c = "7" -> 55
      [] c = "8" -> 56 [] c = "9" -> 57
      [] c = "A" -> 65 [] c = "B" -> 66 [] c = "X" -> 88 [] c = "Y" -> 89
      [] c = "_" -> 95
      [] c = "a" -> 97 [] c = "b" -> 98 [] c = "p" -> 112 [] c = "q" -> 113
      [] c = "x" -> 120 [] c = "y" -> 121
      [] c = "E_ACUTE" -> 50057
      [] c = "e_acute" -> 50089

\* a < b under the BINARY collation.
RECURSIVE BinaryLess(_, _)
BinaryLess(a, b) ==
    IF b = <<>> THEN FALSE
    ELSE IF a = <<>> THEN TRUE
    ELSE IF Head(a) = Head(b) THEN BinaryLess(Tail(a), Tail(b))
    ELSE CharOrd(Head(a)) < CharOrd(Head(b))

\* The characters of the model.
Chars == {"TAB", " ", "(", ")", "0", "1", "2", "3", "4", "5", "6", "7", "8", "9",
          "A", "B", "X", "Y", "_", "a", "b", "p", "q", "x", "y",
          "E_ACUTE", "e_acute"}

\* Mutant of Utf8: every character is given one byte.
Utf8_one_byte(c) == <<CharOrd(c) % 256>>

\* The UTF-8 bytes of a character: one byte for ASCII, two for the others.
Utf8(c) ==
    IF CharOrd(c) < 128 THEN <<CharOrd(c)>>
    ELSE <<CharOrd(c) \div 256, CharOrd(c) % 256>>

\* str.encode(): the UTF-8 bytes of a string.
RECURSIVE Encode(_)
Encode(s) == IF s = <<>> THEN <<>> ELSE Utf8(Head(s)) \o Encode(Tail(s))

\* The character with this encoding read as a number.
CharOf(code) == CHOOSE c \in Chars : CharOrd(c) = code

\* bytes.decode(): the string of UTF-8 bytes; ok is FALSE for bytes that are
\* no UTF-8 (UnicodeDecodeError).
RECURSIVE Decode(_)
Decode(b) ==
    IF b = <<>> THEN [ok |-> TRUE, str |-> <<>>]
    ELSE IF b[1] < 128
    THEN LET rest == Decode(Tail(b))
         IN  [ok |-> rest.ok /\ \E c \in Chars : CharOrd(c) = b[1],
              str |-> IF rest.ok /\ \E c \in Chars : CharOrd(c) = b[1]
                      THEN <<CharOf(b[1])>> \o rest.str ELSE <<>>]
    ELSE IF b[1] \in 194..223 /\ Len(b) >= 2 /\ b[2] \in 128..191
    THEN LET rest == Decode(Tail(Tail(b)))
             code == b[1] * 256 + b[2]
         IN  [ok |-> rest.ok /\ \E c \in Chars : CharOrd(c) = code,
              str |-> IF rest.ok /\ \E c \in Chars : CharOrd(c) = code
                      THEN <<CharOf(code)>> \o rest.str ELSE <<>>]
    ELSE [ok |-> FALSE, str |-> <<>>]

(***************************************************************************)
(* The passwords table: a sequence of rows in rowid order.                 *)
(***************************************************************************)
\* A row of the table (the AUTOINCREMENT id is the position in the sequence).
Row(website, email, encrypted_password, salt, date_added, category) ==
    [website |-> website, email |-> email,
     encrypted_password |-> encrypted_password, salt |-> salt,
     date_added |-> date_added, category |-> category]

\* Mutant of WhereIdentity: the WHERE clause names the website only.
WhereIdentity_website_only(r, website, email) == r.website = website

\* WHERE website = ? AND email = ?  (BINARY collation: case-sensitive)
WhereIdentity(r, website, email) == r.website = website /\ r.email = email

\* SELECT website FROM passwords WHERE website = ? AND email = ?
SelectIdentity(t, website, email) ==
    SelectSeq(t, LAMBDA r : WhereIdentity(r, website, email))

\* Mutant of UniqueViolation: the table has no UNIQUE constraint.
UniqueViolation_never(t, website, email) == FALSE

\* The UNIQUE(website, email) constraint: would inserting this pair break it?
UniqueViolation(t, website, email) ==
    \E i \in 1..Len(t) : t[i].website = website /\ t[i].email = email

\* UPDATE passwords SET encrypted_password, salt, date_added, category
\* WHERE website = ? AND email = ?
SqlUpdate(t, website, email, encrypted_password, salt, current_time, category) ==
    [i \in 1..Len(t) |->
        IF WhereIdentity(t[i], website, email)
        THEN [t[i] EXCEPT !.encrypted_password = encrypted_password,
                          !.salt = salt,
                          !.date_added = current_time,
                          !.category = category]
        ELSE t[i]]

\* INSERT INTO passwords (...) VALUES (...): the new table, and whether the
\* UNIQUE constraint rejected the row (sqlite3.IntegrityError).
SqlInsert(t, website, email, encrypted_password, salt, current_time, category) ==
    IF UniqueViolation(t, website, email)
    THEN [rows |-> t, integrity_error |-> TRUE]
    ELSE [rows |-> Append(t, Row(website, email, encrypted_password, salt,
                                 current_time, category)),
          integrity_error |-> FALSE]

\* DatabaseManager.save_password: ret is TRUE, or "raise" when the
\* IntegrityError is re-raised; path is the branch taken.
db_save_password(t, website, email, encrypted_password, salt, category, current_time) ==
    LET existing == SelectIdentity(t, website, email)
    IN  IF existing # <<>>
        THEN [rows |-> SqlUpdate(t, website, email, encrypted_password, salt,
                                 current_time, category),
              ret |-> "True", path |-> "update"]
        ELSE LET ins == SqlInsert(t, website, email, encrypted_password, salt,
                                  current_time, category)
             IN  [rows |-> ins.rows,
                  ret |-> IF ins.integrity_error THEN "raise" ELSE "True",
                  path |-> "insert"]

\* What a statement on the cursor meets: it runs, or the storage layer fails
\* it (sqlite3.OperationalError / DatabaseError: disk I/O error, locked or
\* malformed database file).
Storage == {"ok", "fail"}

\* DatabaseManager.save_password when the storage may fail: an exception
\* other than IntegrityError is logged and False returned; nothing is written.
db_save_password_io(t, website, email, encrypted_password, salt, category, current_time, storage) ==
    IF storage = "fail"
    THEN [rows |-> t, ret |-> "False", path |-> "failed"]
    ELSE db_save_password(t, website, email, encrypted_password, salt, category,
                          current_time)

\* The columns load_passwords and search_passwords select: website, category,
\* email, encrypted_password, date_added.
ListInfo(r) ==
    [website |-> r.website, category |-> r.category, email |-> r.email,
     encrypted_password |-> r.encrypted_password, date_added |-> r.date_added]

\* r comes before q in the index of UNIQUE(website, email), which the
\* ORDER BY website query scans.
IndexBefore(r, q) ==
    \/ BinaryLess(r.website, q.website)
    \/ r.website = q.website /\ BinaryLess(r.email, q.email)

\* r put at its place in a sequence that is in index order.
RECURSIVE IndexInsert(_, _)
IndexInsert(r, sorted) ==
    IF sorted = <<>> THEN <<r>>
    ELSE IF IndexBefore(r, Head(sorted)) THEN <<r>> \o sorted
    ELSE <<Head(sorted)>> \o IndexInsert(r, Tail(sorted))

\* Mutant of OrderByWebsite: the SELECT has no ORDER BY.
OrderByWebsite_rowid(t) == t

\* SELECT ... FROM passwords ORDER BY website
RECURSIVE OrderByWebsite(_)
OrderByWebsite(t) ==
    IF t = <<>> THEN <<>>
    ELSE IndexInsert(Head(t), OrderByWebsite(Tail(t)))

\* DatabaseManager.load_passwords: fetchall() of the ordered SELECT, or []
\* from the except branch when the statement fails.
db_load_passwords(t, storage) ==
    IF storage = "fail" THEN <<>>
    ELSE LET ordered == OrderByWebsite(t)
         IN  [i \in 1..Len(ordered) |-> ListInfo(ordered[i])]

\* DatabaseManager.search_passwords: the rows whose website is LIKE
\* '%search_term%' in rowid order, or [] when the statement fails.
db_search_passwords(t, search_term, storage) ==
    IF storage = "fail" THEN <<>>
    ELSE LET found == SelectSeq(t, LAMBDA r : LikeContains(search_term, r.website))
         IN  [i \in 1..Len(found) |-> ListInfo(found[i])]

\* Mutant of SqlDelete: the WHERE clause names the website only.
SqlDelete_website_only(t, website, email) ==
    SelectSeq(t, LAMBDA r : r.website # website)

\* Mutant of SqlDelete: the statement removes no row.
SqlDelete_nothing(t, website, email) == t

\* DELETE FROM passwords WHERE website = ? AND email = ?
SqlDelete(t, website, email) ==
    SelectSeq(t, LAMBDA r : ~WhereIdentity(r, website, email))

\* DatabaseManager.delete_password: returns True whenever no exception occurs.
db_delete_password(t, website, email) ==
    [rows |-> SqlDelete(t, website, email), ret |-> "True"]

\* The columns check_duplicate selects: website, email, category, date_added.
DupInfo(r) ==
    [website |-> r.website, email |-> r.email,
     category |-> r.category, date_added |-> r.date_added]

\* SELECT ... FROM passwords WHERE website LIKE ? OR email LIKE ?
SelectLike(t, website, email) ==
    SelectSeq(t, LAMBDA r : LikeContains(website, r.website)
                            \/ LikeContains(email, r.email))

\* The comparison of check_duplicate's loop: both fields equal after lower().
LowerEqual(r, website, email) ==
    LowerStr(r.website) = LowerStr(website) /\ LowerStr(r.email) = LowerStr(email)

\* The for loop of check_duplicate over the fetched results: exact_match is
\* reassigned on every match (<<>> is None, <<d>> a dict), the others are
\* appended to duplicates.
RECURSIVE DupLoop(_, _, _, _, _)
DupLoop(results, website, email, exact_match, duplicates) ==
    IF results = <<>>
    THEN [exact_match |-> exact_match, duplicates |-> duplicates]
    ELSE IF LowerEqual(Head(results), website, email)
         THEN DupLoop(Tail(results), website, email,
                      <<DupInfo(Head(results))>>, duplicates)
         ELSE DupLoop(Tail(results), website, email,
                      exact_match, Append(duplicates, DupInfo(Head(results))))

\* DatabaseManager.check_duplicate
check_duplicate(t, website, email) ==
    DupLoop(SelectLike(t, website, email), website, email, <<>>, <<>>)

\* Mutant of check_duplicate_io: a failed lookup reports a stored record.
check_duplicate_io_blocks(t, website, email, storage) ==
    IF storage = "fail"
    THEN [exact_match |-> <<[website |-> website, email |-> email,
                             category |-> "General", date_added |-> 0]>>,
          duplicates |-> <<>>]
    ELSE check_duplicate(t, website, email)

\* DatabaseManager.check_duplicate when the storage may fail: the except
\* branch returns (None, []).
check_duplicate_io(t, website, email, storage) ==
    IF storage = "fail"
    THEN [exact_match |-> <<>>, duplicates |-> <<>>]
    ELSE check_duplicate(t, website, email)

\* Mutant of CountWebsite: the probe finds every name free.
CountWebsite_never(t, name) == 0

\* Mutant of CountWebsite: the probe counts the rows of every website.
CountWebsite_all(t, name) == Len(t)

\* SELECT COUNT(*) FROM passwords WHERE website = ?
CountWebsite(t, name) == Len(SelectSeq(t, LAMBDA r : r.website = name))

\* The while loop of get_unique_website_name from a given counter.
RECURSIVE UniqueNameFrom(_, _, _)
UniqueNameFrom(t, base_name, counter) ==
    IF CountWebsite(t, SuffixedName(base_name, counter)) = 0
    THEN SuffixedName(base_name, counter)
    ELSE UniqueNameFrom(t, base_name, counter + 1)

\* Mutant of get_unique_website_name: the counter starts at 2.
get_unique_website_name_from_2(t, base_name) == UniqueNameFrom(t, base_name, 2)

\* DatabaseManager.get_unique_website_name
get_unique_website_name(t, base_name) == UniqueNameFrom(t, base_name, 1)

(***************************************************************************)
(* SecurityManager.                                                        *)
(***************************************************************************)
\* The key the cipher suite was initialised with (SecurityManager.initialize).
cipher_key == "k1"

\* SecurityManager.encrypt_data as the save path of an initialised manager
\* uses it: a Fernet token, opaque to the store, that binds the key and the
\* plaintext.
encrypt_data(data) == [key |-> cipher_key, pt |-> data]

\* SecurityManager.hash_password: (password_hash, salt) for the salt that
\* secrets.token_bytes drew.
hash_password(password, salt) ==
    [password_hash |-> [pbkdf2 |-> password, salt |-> salt], salt |-> salt]

\* Values of Fernet.generate_key().
Keys == {"k1", "k2"}

\* Mutant of KeyFileExists: the key file is never found.
KeyFileExists_never(kf) == FALSE

\* os.path.exists(self.key_file)
KeyFileExists(kf) == kf # "none"

\* What writing the new key file meets: it is written; open() fails and no
\* file is made; or the file is made and the write fails, leaving it empty.
KeyWrites == {"ok", "no_file", "partial"}

\* SecurityManager.initialize on key file kf and cipher suite cs, with the key
\* generate_key() would draw and the outcome a write of the file would meet.
\* Fernet(key) raises ValueError for a key that is not 32 encoded bytes; every
\* exception is logged and re-raised.
security_initialize(kf, cs, key, write) ==
    LET generated == ~KeyFileExists(kf)
        written == IF ~generated THEN kf
                   ELSE CASE write = "ok" -> key
                          [] write = "no_file" -> "none"
                          [] write = "partial" -> "empty"
    IN  IF (generated /\ write # "ok") \/ written \notin Keys
        THEN [key_file |-> written, cipher_suite |-> cs, ret |-> "raise",
              generated |-> generated]
        ELSE [key_file |-> written, cipher_suite |-> written, ret |-> "True",
              generated |-> generated]

\* The version byte of a Fernet token.
FernetVersion == "0x80"

\* The HMAC a Fernet key computes over the version byte and the ciphertext ct
\* (timestamp and IV are part of what is signed and play no other part
\* without a ttl).
Hmac(key, version, ct) == [signing_key |-> key, version |-> version, ct |-> ct]

\* Fernet.encrypt: version byte, the plaintext bytes enciphered under the key
\* (fields key and pt), and the HMAC over both, in this order.
fernet_encrypt(key, bytes) ==
    [version |-> FernetVersion, key |-> key, pt |-> bytes,
     hmac |-> Hmac(key, FernetVersion, [key |-> key, pt |-> bytes])]

\* Mutant of fernet_decrypt: the HMAC is not verified.
fernet_decrypt_unauthenticated(key, token) ==
    IF {"version", "key", "pt"} \subseteq DOMAIN token
       /\ token.version = FernetVersion /\ token.key = key
    THEN [ok |-> TRUE, bytes |-> token.pt]
    ELSE [ok |-> FALSE, bytes |-> <<>>]

\* Fernet.decrypt: InvalidToken (ok = FALSE) for a token that is too short to
\* hold all its parts, whose version byte is not 0x80 or whose HMAC is not the
\* one this key computes; else the plaintext bytes.
fernet_decrypt(key, token) ==
    IF /\ {"version", "key", "pt", "hmac"} \subseteq DOMAIN token
       /\ token.version = FernetVersion
       /\ token.hmac = Hmac(key, token.version, [key |-> token.key, pt |-> token.pt])
    THEN [ok |-> TRUE, bytes |-> token.pt]
    ELSE [ok |-> FALSE, bytes |-> <<>>]

\* SecurityManager.encrypt_data on cipher suite cs: raises (ok = FALSE) when
\* the manager is not initialised.
security_encrypt_data(cs, data) ==
    IF cs = "None" THEN [ok |-> FALSE, token |-> <<>>]
    ELSE [ok |-> TRUE, token |-> fernet_encrypt(cs, Encode(data))]

\* SecurityManager.decrypt_data on cipher suite cs: raises (ok = FALSE) when
\* the manager is not initialised, the token is invalid or its plaintext is
\* no UTF-8.
security_decrypt_data(cs, encrypted_data) ==
    IF cs = "None" THEN [ok |-> FALSE, str |-> <<>>]
    ELSE LET plain == fernet_decrypt(cs, encrypted_data)
         IN  IF plain.ok THEN Decode(plain.bytes) ELSE [ok |-> FALSE, str |-> <<>>]

\* What can have happened to a stored token before it is decrypted: a byte of
\* its version, ciphertext or HMAC part was changed, its tail (the HMAC, or
\* the HMAC and the ciphertext) was cut off, or it was made under another key.
Damages == {"version", "ciphertext", "hmac", "cut_hmac", "cut_ciphertext",
            "other_key"}

\* The token as it is after the damage how.
Damage(token, how, other_key) ==
    CASE how = "version" -> [token EXCEPT !.version = "0x81"]
      [] how = "ciphertext" ->
            [token EXCEPT !.pt = IF @ = <<>> THEN <<0>> ELSE Tail(@)]
      [] how = "hmac" -> [token EXCEPT !.hmac.signing_key = "changed"]
      [] how = "cut_hmac" ->
            [version |-> token.version, key |-> token.key, pt |-> token.pt]
      [] how = "cut_ciphertext" -> [version |-> token.version]
      [] how = "other_key" -> fernet_encrypt(other_key, token.pt)

\* PasswordController.show_password_popup: decrypt_password, then the
\* PasswordPopup with the password; when decrypt_data raises, the error
\* message box and no PasswordPopup.
controller_show_password_popup(cs, encrypted_password) ==
    LET d == security_decrypt_data(cs, encrypted_password)
    IN  IF d.ok THEN [ok |-> TRUE, shown |-> "PasswordPopup", password |-> d.str]
        ELSE [ok |-> FALSE, shown |-> "showerror", password |-> <<>>]

(***************************************************************************)
(* SecurityManager.generate_advanced_password and check_password_strength. *)
(***************************************************************************)
\* 'abcdefghijklmnopqrstuvwxyz'
LowercaseLetters ==
    <<"a", "b", "c", "d", "e", "f", "g", "h", "i", "j", "k", "l", "m",
      "n", "o", "p", "q", "r", "s", "t", "u", "v", "w", "x", "y",
      "z">>

\* 'ABCDEFGHIJKLMNOPQRSTUVWXYZ'
UppercaseLetters ==
    <<"A", "B", "C", "D", "E", "F", "G", "H", "I", "J", "K", "L", "M",
      "N", "O", "P", "Q", "R", "S", "T", "U", "V", "W", "X", "Y",
      "Z">>

\* '0123456789'
default_numbers ==
    <<"0", "1", "2", "3", "4", "5", "6", "7", "8", "9">>

\* self.default_symbols
default_symbols ==
    <<"!", "@", "#", "$", "%", "^", "&", "*", "(", ")", "_", "+", "-",
      "=", "[", "]", "{", "}", "|", ";", ":", ",", ".", "<", ">",
      "?">>

\* The value None of an optional string argument.
None == <<"None">>

\* The set of the characters of s.
CharsOf(s) == {s[i] : i \in 1..Len(s)}

\* random.choice(s): the model follows two of its outcomes, the first and the
\* last character of s.
Draw(s) == {s[1], s[Len(s)]}

\* random.shuffle(parts): the model follows two of its outcomes, the order
\* left as it is and the order reversed.
Shuffles(parts) ==
    {parts, [i \in 1..Len(parts) |-> parts[Len(parts) + 1 - i]]}

\* [choice(chars) for _ in range(remaining_length)]: the model follows the
\* outcomes that draw the first character of chars j times and then its last
\* character, for every j.
Fills(chars, remaining_length) ==
    {[i \in 1..remaining_length |-> IF i <= j THEN chars[1] ELSE chars[Len(chars)]] :
        j \in 0..remaining_length}

\* Mutant of LengthValid: the lower limit is 7.
LengthValid_from_7(length) == ~(length < 7 \/ length > 50)

\* if length < 8 or length > 50: raise ValueError
LengthValid(length) == ~(length < 8 \/ length > 50)

\* Mutant of Required: no character is appended for an enabled class.
Required_none(use, alphabet) == {<<>>}

\* if use_x and x: password_parts.append(choice(x))
Required(use, alphabet) ==
    IF use /\ alphabet # <<>> THEN {<<c>> : c \in Draw(alphabet)} ELSE {<<>>}

\* SecurityManager.generate_advanced_password: the set of its outcomes, a
\* raised ValueError (ok = FALSE) or a returned password.
generate_advanced_password(length, use_lowercase, use_uppercase, use_numbers, use_symbols, custom_symbols, custom_numbers) ==
    LET symbols_given == IF custom_symbols = None THEN default_symbols
                         ELSE custom_symbols
        numbers_given == IF custom_numbers = None THEN default_numbers
                         ELSE custom_numbers
        lowercase == IF use_lowercase THEN LowercaseLetters ELSE <<>>
        uppercase == IF use_uppercase THEN UppercaseLetters ELSE <<>>
        numbers == IF use_numbers THEN numbers_given ELSE <<>>
        symbols == IF use_symbols THEN symbols_given ELSE <<>>
        chars == lowercase \o uppercase \o numbers \o symbols
    IN  IF ~LengthValid(length)
        THEN {[ok |-> FALSE, password |-> <<>>,
               error |-> "Password length must be between 8 and 50 characters"]}
        ELSE IF chars = <<>>
        THEN {[ok |-> FALSE, password |-> <<>>,
               error |-> "Please select at least one character type"]}
        ELSE {[ok |-> TRUE, password |-> password, error |-> "none"] :
                password \in UNION {UNION {Shuffles(required \o fill) :
                    fill \in Fills(chars,
                        IF length - Len(required) > 0
                        THEN length - Len(required) ELSE 0)} :
                    required \in {l \o u \o n \o y :
                        l \in Required(use_lowercase, lowercase),
                        u \in Required(use_uppercase, uppercase),
                        n \in Required(use_numbers, numbers),
                        y \in Required(use_symbols, symbols)}}}

\* PasswordForm.get_custom_symbols / get_custom_numbers: the stripped text of
\* the entry, or the default when nothing is left of it.
get_custom(entry, default) ==
    IF Strip(entry) # <<>> THEN Strip(entry) ELSE default

\* PasswordForm.generate_advanced_password: the generated password is put in
\* the password entry; an exception is shown as an error message.
form_generate_advanced_password(length, use_lowercase, use_uppercase, use_numbers, use_symbols, symbols_entry, numbers_entry) ==
    {[ok |-> g.ok, password |-> g.password,
      popup |-> IF g.ok THEN "Password generated and copied to clipboard!"
                ELSE "Error generating password"] :
        g \in generate_advanced_password(length, use_lowercase, use_uppercase,
                  use_numbers, use_symbols,
                  get_custom(symbols_entry, default_symbols),
                  get_custom(numbers_entry, default_numbers))}

\* str.islower, str.isupper and str.isdigit on a character: the cased
\* letters and the digits, ASCII or not.
IsLower(c) == c \in CharsOf(LowercaseLetters) \cup {"e_acute"}
IsUpper(c) == c \in CharsOf(UppercaseLetters) \cup {"E_ACUTE"}
IsDigit(c) == c \in CharsOf(default_numbers)

\* c in '!@#$%^&*()_+-=[]{}|;:,.<>?'
IsListedSymbol(c) == c \in CharsOf(default_symbols)

\* Mutant of LengthPoints: the third length check is left out.
LengthPoints_two(n) ==
    (IF n >= 8 THEN 1 ELSE 0) + (IF n >= 12 THEN 1 ELSE 0)

\* The length checks: score += 1 for each of >= 8, >= 12, >= 16.
LengthPoints(n) ==
    (IF n >= 8 THEN 1 ELSE 0) + (IF n >= 12 THEN 1 ELSE 0)
        + (IF n >= 16 THEN 1 ELSE 0)

\* Mutant of VarietyPoints: a digit takes a point off.
VarietyPoints_digit_costs(password) ==
    (IF \E i \in 1..Len(password) : IsLower(password[i]) THEN 1 ELSE 0)
    + (IF \E i \in 1..Len(password) : IsUpper(password[i]) THEN 1 ELSE 0)
    + (IF \E i \in 1..Len(password) : IsListedSymbol(password[i]) THEN 1 ELSE 0)
    + (IF \E i \in 1..Len(password) : IsDigit(password[i]) THEN 0 ELSE 1)

\* The character variety checks: score += 1 for each of any(c.islower()),
\* any(c.isupper()), any(c.isdigit()), any(c in the symbols).
VarietyPoints(password) ==
    (IF \E i \in 1..Len(password) : IsLower(password[i]) THEN 1 ELSE 0)
    + (IF \E i \in 1..Len(password) : IsUpper(password[i]) THEN 1 ELSE 0)
    + (IF \E i \in 1..Len(password) : IsDigit(password[i]) THEN 1 ELSE 0)
    + (IF \E i \in 1..Len(password) : IsListedSymbol(password[i]) THEN 1 ELSE 0)

\* strength_levels.get(score, ("Unknown", "#757575"))
strength_levels(score) ==
    CASE score \in {0, 1} -> [level |-> "Very Weak", color |-> "#f44336"]
      [] score = 2 -> [level |-> "Weak", color |-> "#FF9800"]
      [] score = 3 -> [level |-> "Fair", color |-> "#FFC107"]
      [] score = 4 -> [level |-> "Good", color |-> "#8BC34A"]
      [] score = 5 -> [level |-> "Strong", color |-> "#4CAF50"]
      [] score = 6 -> [level |-> "Very Strong", color |-> "#2E7D32"]
      [] score = 7 -> [level |-> "Excellent", color |-> "#1B5E20"]
      [] OTHER -> [level |-> "Unknown", color |-> "#757575"]

\* SecurityManager.check_password_strength: (level, color, score).
check_password_strength(password) ==
    LET score == LengthPoints(Len(password)) + VarietyPoints(password)
    IN  [level |-> strength_levels(score).level,
         color |-> strength_levels(score).color, score |-> score]

(***************************************************************************)
(* DuplicateDialog and PasswordController.save_password.                   *)
(***************************************************************************)
\* DuplicateDialog.result after wait_window returns: set by overwrite,
\* create_new or cancel (also bound to Escape); still None, its value from
\* __init__, when the window was closed by the window manager.
DialogResults == {"overwrite", "create_new", "cancel", "None"}

\* The dialog is shown when check_duplicate returned an exact match
\* (if exact_match:), and then result is what get_result() returns.
Asked(exact_match) == exact_match # <<>>

\* Mutant of Cancelled: the cancel branch is never taken.
Cancelled_never(asked, result) == FALSE

\* if result == "cancel": return False, "Operation cancelled"
Cancelled(asked, result) == asked /\ result = "cancel"

\* elif result == "create_new": website = get_unique_website_name(website);
\* on every other result the entered website is kept.
SaveSite(t, website, asked, result) ==
    IF asked /\ result = "create_new"
    THEN get_unique_website_name(t, website)
    ELSE website

\* The message of a successful save.
SaveMessage(asked, result) ==
    IF asked /\ result = "overwrite"
    THEN "Password updated for"
    ELSE "Password saved for"

\* The near matches put on screen: the dialog lists them, and it is created
\* only for an exact match; the returned (success, message) carries none.
Surfaced(asked, duplicates) == IF asked THEN duplicates ELSE <<>>

\* The storage outcomes of the three calls a facade save makes on the store:
\* check_duplicate, get_unique_website_name, save_password.
NoFault == [lookup |-> "ok", unique |-> "ok", write |-> "ok"]

\* PasswordController.save_password on table t. result is what the dialog
\* would answer; salt is the salt hash_password draws; current_time is
\* datetime.now(); io the storage outcomes of its calls on the store. dialog
\* records whether the dialog was shown and its result, shown the near matches
\* put on screen, path the branch of the store save ("none": not called),
\* saved_as the website handed to the store.
controller_save_password_io(t, website, email, password, category, result, salt, current_time, io) ==
    LET quiet == [rows |-> t, exact_match |-> <<>>, duplicates |-> <<>>,
                  dialog |-> "not_shown", shown |-> <<>>, path |-> "none",
                  saved_as |-> <<>>]
    IN
    IF Strip(website) = <<>>
    THEN quiet @@ [success |-> FALSE, message |-> "Website is required"]
    ELSE IF Strip(email) = <<>>
    THEN quiet @@ [success |-> FALSE, message |-> "Email/Username is required"]
    ELSE IF Strip(password) = <<>>
    THEN quiet @@ [success |-> FALSE, message |-> "Password is required"]
    ELSE
    LET dup == check_duplicate_io(t, website, email, io.lookup)
        asked == Asked(dup.exact_match)
        checked == [quiet EXCEPT !.exact_match = dup.exact_match,
                                 !.duplicates = dup.duplicates,
                                 !.dialog = IF asked THEN result ELSE "not_shown",
                                 !.shown = Surfaced(asked, dup.duplicates)]
    IN
    IF Cancelled(asked, result)
    THEN checked @@ [success |-> FALSE, message |-> "Operation cancelled"]
    ELSE IF asked /\ result = "create_new" /\ io.unique = "fail"
    THEN checked @@ [success |-> FALSE, message |-> "Error"]
    ELSE
    LET site == SaveSite(t, website, asked, result)
        hashed == hash_password(password, salt)
        saved == db_save_password_io(t, site, email, encrypt_data(password),
                                     hashed.salt, category, current_time, io.write)
        written == [checked EXCEPT !.rows = saved.rows, !.path = saved.path,
                                   !.saved_as = site]
    IN
    IF saved.ret = "raise"
    THEN written @@ [success |-> FALSE, message |-> "Error"]
    ELSE IF saved.ret = "True"
    THEN written @@ [success |-> TRUE, message |-> SaveMessage(asked, result)]
    ELSE written @@ [success |-> FALSE, message |-> "Failed to save password for"]

\* PasswordController.save_password when every statement runs.
controller_save_password(t, website, email, password, category, result, salt, current_time) ==
    controller_save_password_io(t, website, email, password, category, result,
                                salt, current_time, NoFault)

\* PasswordController.load_initial_passwords: what load_passwords returned.
controller_load_initial_passwords(t, storage) ==
    [records |-> db_load_passwords(t, storage), status |-> <<>>, popup |-> "none"]

\* PasswordController.refresh_password_list: the list view gets what
\* load_passwords returned and the status bar its length; the error popup is
\* shown only for an exception, and load_passwords raises none.
controller_refresh_password_list(t, storage) ==
    LET passwords == db_load_passwords(t, storage)
    IN  [records |-> passwords, status |-> <<"Showing", Len(passwords)>>,
         popup |-> "none"]

\* PasswordController.search_passwords: an empty term refreshes the list.
controller_search_passwords(t, search_term, storage) ==
    IF search_term # <<>>
    THEN LET results == db_search_passwords(t, search_term, storage)
         IN  [records |-> results, status |-> <<"Found", Len(results)>>,
              popup |-> "none"]
    ELSE controller_refresh_password_list(t, storage)

\* PasswordController.save_password in a process whose SecurityManager holds
\* cipher suite cs: the same branches, with the token encrypt_data makes under
\* cs at line 224, or its exception (caught at line 243, nothing written)
\* when the manager is not initialised.
controller_save_password_cs(cs, t, website, email, password, category, result, salt, current_time) ==
    LET r == controller_save_password(t, website, email, password, category,
                                      result, salt, current_time)
        e == security_encrypt_data(cs, password)
    IN  IF r.path = "none" THEN r
        ELSE IF ~e.ok
        THEN [r EXCEPT !.rows = t, !.path = "none", !.saved_as = <<>>,
                       !.success = FALSE, !.message = "Error"]
        ELSE [r EXCEPT !.rows = db_save_password(t, r.saved_as, email, e.token,
                                                 salt, category, current_time).rows]

\* PasswordController.delete_password: after a confirmed askyesno the store's
\* delete_password, then the message and, on success, the refreshed list.
\* ret is what the store's delete_password returned ("none": not called).
controller_delete_password(t, website, email, confirm) ==
    IF ~confirm
    THEN [rows |-> t, ret |-> "none", popup |-> "none", records |-> <<>>]
    ELSE LET d == db_delete_password(t, website, email)
         IN  IF d.ret = "True"
             THEN [rows |-> d.rows, ret |-> d.ret, popup |-> "Password deleted for",
                   records |-> controller_refresh_password_list(d.rows, "ok").records]
             ELSE [rows |-> d.rows, ret |-> d.ret,
                   popup |-> "Failed to delete password for", records |-> <<>>]

(***************************************************************************)
(* PasswordList, the list view, and the auto-fill of the form.             *)
(***************************************************************************)
\* The text of a category.
CategoryText(category) ==
    CASE category = "General" -> <<"G", "e", "n", "e", "r", "a", "l">>
      [] category = "Banking" -> <<"B", "a", "n", "k", "i", "n", "g">>

\* term in text
Contains(term, text) ==
    \E k \in 1..(Len(text) - Len(term) + 1) :
        SubSeq(text, k, k + Len(term) - 1) = term

\* PasswordList.update_list: the tree is emptied, passwords is stored in
\* self.all_passwords, and a row is inserted for each of them, tagged with
\* its website, email and encrypted password.
list_update_list(password_list, passwords) ==
    [password_list EXCEPT !.all_passwords = passwords, !.tree = passwords]

\* PasswordList.filter_list
list_filter_list(password_list, passwords, search_term) ==
    IF search_term = <<>>
    THEN list_update_list(password_list, passwords)
    ELSE list_update_list(password_list,
            SelectSeq(passwords, LAMBDA pw :
                \/ Contains(search_term, LowerStr(pw.website))
                \/ Contains(search_term, LowerStr(CategoryText(pw.category)))
                \/ Contains(search_term, LowerStr(pw.email))))

\* PasswordList.on_search, the KeyRelease handler of the search entry.
list_on_search(password_list) ==
    list_filter_list(password_list, password_list.all_passwords,
                     LowerStr(password_list.search_var))

\* PasswordList.clear_filter
list_clear_filter(password_list) ==
    list_update_list([password_list EXCEPT !.search_var = <<>>],
                     password_list.all_passwords)

\* if pw_website == website: (email is the selected row's; auto_fill_form is
\* not given it)
AutoFillMatch(pw, website, email) == pw.website = website

\* PasswordController.auto_fill_form for the selected row's website: the
\* first loaded record of that website is decrypted and put in the form. An
\* exception of decrypt_data is shown as an error, the form left as it is.
RECURSIVE auto_fill_loop(_, _, _, _, _)
auto_fill_loop(passwords, website, email, cs, password_form) ==
    IF passwords = <<>>
    THEN [password_form |-> password_form, popup |-> "No password found for"]
    ELSE IF AutoFillMatch(Head(passwords), website, email)
    THEN LET d == security_decrypt_data(cs, Head(passwords).encrypted_password)
         IN  IF d.ok
             THEN [password_form |->
                       [website |-> website, email |-> Head(passwords).email,
                        password |-> d.str,
                        category |-> Head(passwords).category],
                   popup |-> "Form auto-filled for"]
             ELSE [password_form |-> password_form,
                   popup |-> "Error auto-filling form"]
    ELSE auto_fill_loop(Tail(passwords), website, email, cs, password_form)

\* PasswordList.auto_fill_from_selection on the selected row of the tree.
list_auto_fill_from_selection(t, cs, row, password_form) ==
    auto_fill_loop(db_load_passwords(t, "ok"), row.website, row.email, cs,
                   password_form)

(***************************************************************************)
(* Inputs.                                                                 *)
(***************************************************************************)
Sites == {<<"a">>, <<"A">>}
Emails == {<<"x">>, <<"y">>}
\* The (password, category) pairs the saves are given.
Payloads == {<<(<<"p">>), "General">>, <<(<<"q">>), "Banking">>}
\* What a form field can hold besides a value: nothing, or whitespace only.
Blanks == {<<>>, <<" ", "TAB">>}
\* (website, email, password) with one field empty or blank, or all three.
InvalidInputs ==
    {<<b, <<"x">>, <<"p">> >> : b \in Blanks}
    \cup {<< <<"a">>, b, <<"p">> >> : b \in Blanks}
    \cup {<< <<"a">>, <<"x">>, b>> : b \in Blanks}
    \cup {<<b, b, b>> : b \in Blanks}
\* Values of secrets.token_bytes(32).
Salts == {"s1"}

(***************************************************************************)
(* The sequential program: one operation at a time (the Tk event loop;     *)
(* the duplicate dialog is modal).                                         *)
(***************************************************************************)
VARIABLES
    rows,   \* the passwords table
    now,    \* the clock datetime.now() reads
    last,   \* the last operation: its arguments and what it returned
    pc,     \* per thread: the statement it is at (concurrent program only)
    loc,    \* per thread: its arguments and local variables
    cursor, \* self.cursor, the one cursor every call uses: its pending result
    key_file,     \* the file master.key: "none" (no file), "empty", or a key
    cipher_suite, \* SecurityManager.cipher_suite of the running process
    main_window   \* the password list view and the password form

vars == <<rows, now, last, pc, loc, cursor, key_file, cipher_suite, main_window>>

\* The threads of the concurrent program.
Threads == {"t1", "t2"}

NoOp == [op |-> "init"]

\* The views as they are constructed: PasswordList.all_passwords = [], an
\* empty tree and search entry, and the empty fields of the form.
NoWindow ==
    [password_list |-> [all_passwords |-> <<>>, tree |-> <<>>, search_var |-> <<>>],
     password_form |-> [website |-> <<>>, email |-> <<>>, password |-> <<>>,
                        category |-> "General"]]

\* The locals of a thread that has not started an operation.
IdleLoc ==
    [op |-> "none", website |-> <<>>, email |-> <<>>, password |-> <<>>,
     category |-> "General", salt |-> "s1", exact_match |-> <<>>,
     duplicates |-> <<>>, dialog |-> "not_shown", counter |-> 0, site |-> <<>>,
     current_time |-> 0, existing |-> FALSE, path |-> "none", ret |-> "none"]

\* A cursor nothing was executed on: fetchone() is None, fetchall() is [].
NoResult == [kind |-> "dml", rows |-> <<>>]

Init ==
    /\ rows = <<>>
    /\ now = 0
    /\ last = NoOp
    /\ pc = [t \in Threads |-> "idle"]
    /\ loc = [t \in Threads |-> IdleLoc]
    /\ cursor = NoResult
    /\ key_file = cipher_key
    /\ cipher_suite = cipher_key
    /\ main_window = NoWindow

\* DatabaseManager.save_password called on the store.
StoreSave ==
    \E website \in Sites, email \in Emails, payload \in Payloads, salt \in Salts :
        /\ now < MaxTime
        /\ \E r \in {db_save_password(rows, website, email, encrypt_data(payload[1]),
                                      salt, payload[2], now)} :
               /\ rows' = r.rows
               /\ last' = [op |-> "store_save", website |-> website, email |-> email,
                           encrypted_password |-> encrypt_data(payload[1]),
                           salt |-> salt, category |-> payload[2],
                           ret |-> r.ret, path |-> r.path]
        /\ now' = now + 1
        /\ UNCHANGED <<pc, loc, cursor, key_file, cipher_suite, main_window>>

\* The identity pairs a delete can name: a listed record's, or one not stored.
DeleteTargets ==
    {<<rows[i].website, rows[i].email>> : i \in 1..Len(rows)}
    \cup {<< <<"a">>, <<"x">> >>, << <<"A">>, <<"x">> >>}

\* DatabaseManager.delete_password called on the store; removed is the number
\* of rows the DELETE statement removed.
StoreDelete ==
    \E target \in DeleteTargets :
        /\ \E r \in {db_delete_password(rows, target[1], target[2])} :
               /\ rows' = r.rows
               /\ last' = [op |-> "store_delete", website |-> target[1],
                           email |-> target[2], ret |-> r.ret,
                           removed |-> Len(rows) - Len(r.rows)]
        /\ UNCHANGED <<now, pc, loc, cursor, key_file, cipher_suite, main_window>>

\* What the facade save leaves in last.
FacadeLast(website, email, password, category, salt, r) ==
    [op |-> "facade_save", website |-> website, email |-> email,
     password |-> password, category |-> category, salt |-> salt,
     exact_match |-> r.exact_match, duplicates |-> r.duplicates,
     dialog |-> r.dialog, shown |-> r.shown, path |-> r.path,
     saved_as |-> r.saved_as, success |-> r.success, message |-> r.message]

\* PasswordController.save_password with every field filled in, and the
\* answer the dialog gets when it is shown.
FacadeSave ==
    \E website \in Sites, email \in Emails, payload \in Payloads, salt \in Salts :
        /\ now < MaxTime
        /\ \E result \in IF check_duplicate(rows, website, email).exact_match # <<>>
                         THEN DialogResults ELSE {"None"} :
             \E r \in {controller_save_password(rows, website, email, payload[1],
                                                payload[2], result, salt, now)} :
               /\ rows' = r.rows
               /\ last' = FacadeLast(website, email, payload[1], payload[2], salt, r)
               /\ now' = IF r.path = "none" THEN now ELSE now + 1
        /\ UNCHANGED <<pc, loc, cursor, key_file, cipher_suite, main_window>>

\* PasswordController.save_password with a field left empty or blank.
FacadeSaveInvalid ==
    \E input \in InvalidInputs :
        /\ \E r \in {controller_save_password(rows, input[1], input[2], input[3],
                                              "General", "None", "s1", now)} :
               /\ rows' = r.rows
               /\ last' = FacadeLast(input[1], input[2], input[3], "General", "s1", r)
               /\ now' = IF r.path = "none" THEN now ELSE now + 1
        /\ UNCHANGED <<pc, loc, cursor, key_file, cipher_suite, main_window>>

\* DatabaseManager.load_passwords called on the store.
StoreList ==
    /\ last' = [op |-> "store_list", records |-> db_load_passwords(rows, "ok")]
    /\ UNCHANGED <<rows, now, pc, loc, cursor, key_file, cipher_suite, main_window>>

Next == StoreSave \/ StoreDelete \/ FacadeSave \/ FacadeSaveInvalid \/ StoreList

Spec == Init /\ [][Next]_vars

(***************************************************************************)
(* The duplicate lookup as a function: check_duplicate queried on tables   *)
(* that saves of these identities leave behind.                            *)
(***************************************************************************)
QuerySites == {<<"a">>, <<"A">>, <<"a", "b">>, <<"a", "_">>,
               <<"e_acute">>, <<"E_ACUTE">>}
QueryEmails == {<<"x">>, <<"y">>, <<"e_acute">>, <<"E_ACUTE">>}

\* The table after store saves of these identity pairs, in this order.
TableOf(ids) ==
    [i \in 1..Len(ids) |->
        Row(ids[i][1], ids[i][2], encrypt_data(<<"p">>), "s1", i - 1, "General")]

\* Sequences of at most MaxQueryRows identity pairs, no pair twice.
QueryIdLists ==
    UNION {{ids \in [1..n -> QuerySites \X QueryEmails] :
                \A i, j \in 1..n : i # j => ids[i] # ids[j]} : n \in 0..MaxQueryRows}

InitQuery ==
    /\ \E ids \in QueryIdLists : rows = TableOf(ids) /\ now = Len(ids)
    /\ last = NoOp
    /\ pc = [t \in Threads |-> "idle"]
    /\ loc = [t \in Threads |-> IdleLoc]
    /\ cursor = NoResult
    /\ key_file = cipher_key
    /\ cipher_suite = cipher_key
    /\ main_window = NoWindow

\* DatabaseManager.check_duplicate called on the store.
CheckDuplicate ==
    \E website \in QuerySites, email \in QueryEmails :
        /\ \E r \in {check_duplicate(rows, website, email)} :
               last' = [op |-> "check_duplicate", website |-> website, email |-> email,
                        exact_match |-> r.exact_match, duplicates |-> r.duplicates]
        /\ UNCHANGED <<rows, now, pc, loc, cursor, key_file, cipher_suite, main_window>>

NextQuery == CheckDuplicate

SpecQuery == InitQuery /\ [][NextQuery]_vars

(***************************************************************************)
(* The concurrent program: two threads call the facade and the store on    *)
(* the one connection (check_same_thread=False) and its one cursor; a      *)
(* thread can be preempted between any two calls on the cursor.            *)
(***************************************************************************)
\* Inputs of the concurrent program.
ConcSites == {<<"a">>, <<"A">>}
ConcEmails == {<<"x">>}

\* Saves that were started and have not read the clock yet.
InFlight ==
    Cardinality({t \in Threads : pc[t] \in {"cd_exec", "cd_fetch", "dialog",
                                             "un_exec", "un_fetch", "sv_exec"}})

\* The thread ends its operation with this return value.
Return(t, l, ret) ==
    /\ pc' = [pc EXCEPT ![t] = "idle"]
    /\ loc' = [loc EXCEPT ![t] = [l EXCEPT !.ret = ret]]

\* A thread calls PasswordController.save_password: the inputs pass the
\* validation, check_duplicate is next.
BeginFacadeSave(t) ==
    /\ pc[t] = "idle"
    /\ now + InFlight < MaxConcSaves
    /\ \E website \in ConcSites, email \in ConcEmails, payload \in Payloads, salt \in Salts :
        loc' = [loc EXCEPT ![t] =
                   [IdleLoc EXCEPT !.op = "facade_save", !.website = website,
                                   !.site = website, !.email = email,
                                   !.password = payload[1], !.category = payload[2],
                                   !.salt = salt]]
    /\ pc' = [pc EXCEPT ![t] = "cd_exec"]
    /\ UNCHANGED <<rows, now, last, cursor, key_file, cipher_suite, main_window>>

\* A thread calls DatabaseManager.save_password.
BeginStoreSave(t) ==
    /\ pc[t] = "idle"
    /\ now + InFlight < MaxConcSaves
    /\ \E website \in ConcSites, email \in ConcEmails, payload \in Payloads, salt \in Salts :
        loc' = [loc EXCEPT ![t] =
                   [IdleLoc EXCEPT !.op = "store_save", !.website = website,
                                   !.site = website, !.email = email,
                                   !.password = payload[1], !.category = payload[2],
                                   !.salt = salt]]
    /\ pc' = [pc EXCEPT ![t] = "sv_exec"]
    /\ UNCHANGED <<rows, now, last, cursor, key_file, cipher_suite, main_window>>

\* A thread calls DatabaseManager.delete_password.
BeginDelete(t) ==
    /\ pc[t] = "idle"
    /\ \E website \in ConcSites, email \in ConcEmails :
        loc' = [loc EXCEPT ![t] =
                   [IdleLoc EXCEPT !.op = "delete", !.website = website,
                                   !.site = website, !.email = email]]
    /\ pc' = [pc EXCEPT ![t] = "del"]
    /\ UNCHANGED <<rows, now, last, cursor, key_file, cipher_suite, main_window>>

\* check_duplicate: self.cursor.execute(SELECT ... LIKE ? OR ... LIKE ?)
CdExec(t) ==
    /\ pc[t] = "cd_exec"
    /\ cursor' = [kind |-> "like",
                  rows |-> SelectLike(rows, loc[t].website, loc[t].email)]
    /\ pc' = [pc EXCEPT ![t] = "cd_fetch"]
    /\ UNCHANGED <<rows, now, last, loc, key_file, cipher_suite, main_window>>

\* check_duplicate: results = self.cursor.fetchall() and the loop over them.
\* Rows of another statement have one column: unpacking four raises, and the
\* except branch returns (None, []).
CdFetch(t) ==
    /\ pc[t] = "cd_fetch"
    /\ cursor' = [cursor EXCEPT !.rows = <<>>]
    /\ \E r \in {IF cursor.kind = "like"
                 THEN DupLoop(cursor.rows, loc[t].website, loc[t].email, <<>>, <<>>)
                 ELSE [exact_match |-> <<>>, duplicates |-> <<>>]} :
        /\ loc' = [loc EXCEPT ![t].exact_match = r.exact_match,
                              ![t].duplicates = r.duplicates]
        /\ pc' = [pc EXCEPT ![t] = IF Asked(r.exact_match) THEN "dialog" ELSE "sv_exec"]
    /\ UNCHANGED <<rows, now, last, key_file, cipher_suite, main_window>>

\* The dialog is answered (or closed): cancel returns, create_new goes on
\* to get_unique_website_name, every other result goes on to the save.
Dialog(t) ==
    /\ pc[t] = "dialog"
    /\ \E result \in DialogResults :
        LET l == [loc[t] EXCEPT !.dialog = result]
        IN  IF Cancelled(TRUE, result)
            THEN Return(t, l, "cancelled")
            ELSE /\ loc' = [loc EXCEPT ![t] = [l EXCEPT !.counter = 1]]
                 /\ pc' = [pc EXCEPT ![t] = IF result = "create_new"
                                            THEN "un_exec" ELSE "sv_exec"]
    /\ UNCHANGED <<rows, now, last, cursor, key_file, cipher_suite, main_window>>

\* get_unique_website_name: self.cursor.execute(SELECT COUNT(*) ...)
UnExec(t) ==
    /\ pc[t] = "un_exec"
    /\ cursor' = [kind |-> "count",
                  rows |-> <<CountWebsite(rows, SuffixedName(loc[t].website,
                                                             loc[t].counter))>>]
    /\ pc' = [pc EXCEPT ![t] = "un_fetch"]
    /\ UNCHANGED <<rows, now, last, loc, key_file, cipher_suite, main_window>>

\* get_unique_website_name: if self.cursor.fetchone()[0] == 0. fetchone() is
\* None on a consumed cursor (TypeError, which save_password's except turns
\* into a failure); the first column of another statement's row is no 0.
UnFetch(t) ==
    /\ pc[t] = "un_fetch"
    /\ IF cursor.rows = <<>>
       THEN /\ Return(t, loc[t], "error")
            /\ UNCHANGED cursor
       ELSE /\ cursor' = [cursor EXCEPT !.rows = Tail(cursor.rows)]
            /\ IF cursor.kind = "count" /\ Head(cursor.rows) = 0
               THEN /\ loc' = [loc EXCEPT ![t].site =
                                  SuffixedName(loc[t].website, loc[t].counter)]
                    /\ pc' = [pc EXCEPT ![t] = "sv_exec"]
               ELSE /\ loc' = [loc EXCEPT ![t].counter = loc[t].counter + 1]
                    /\ pc' = [pc EXCEPT ![t] = "un_exec"]
    /\ UNCHANGED <<rows, now, last, key_file, cipher_suite, main_window>>

\* save_password: current_time = datetime.now() and
\* self.cursor.execute(SELECT website ... WHERE website = ? AND email = ?)
SvExec(t) ==
    /\ pc[t] = "sv_exec"
    /\ loc' = [loc EXCEPT ![t].current_time = now]
    /\ now' = now + 1
    /\ cursor' = [kind |-> "identity",
                  rows |-> SelectIdentity(rows, loc[t].site, loc[t].email)]
    /\ pc' = [pc EXCEPT ![t] = "sv_fetch"]
    /\ UNCHANGED <<rows, last, key_file, cipher_suite, main_window>>

\* save_password: existing = self.cursor.fetchone()
SvFetch(t) ==
    /\ pc[t] = "sv_fetch"
    /\ loc' = [loc EXCEPT ![t].existing = (cursor.rows # <<>>)]
    /\ cursor' = [cursor EXCEPT !.rows = IF cursor.rows = <<>> THEN <<>>
                                         ELSE Tail(cursor.rows)]
    /\ pc' = [pc EXCEPT ![t] = "sv_write"]
    /\ UNCHANGED <<rows, now, last, key_file, cipher_suite, main_window>>

\* save_password: the UPDATE or the INSERT, the commit and the return; an
\* IntegrityError is re-raised, and the facade returns a failure for it.
SvWrite(t) ==
    /\ pc[t] = "sv_write"
    /\ cursor' = NoResult
    /\ LET l == loc[t]
           enc == encrypt_data(l.password)
       IN  IF l.existing
           THEN /\ rows' = SqlUpdate(rows, l.site, l.email, enc, l.salt,
                                     l.current_time, l.category)
                /\ Return(t, [l EXCEPT !.path = "update"], "True")
           ELSE \E ins \in {SqlInsert(rows, l.site, l.email, enc, l.salt,
                                      l.current_time, l.category)} :
                /\ rows' = ins.rows
                /\ Return(t, [l EXCEPT !.path = "insert"],
                          IF ins.integrity_error THEN "raise" ELSE "True")
    /\ UNCHANGED <<now, last, key_file, cipher_suite, main_window>>

\* delete_password: the DELETE, the commit and the return.
Del(t) ==
    /\ pc[t] = "del"
    /\ rows' = SqlDelete(rows, loc[t].website, loc[t].email)
    /\ cursor' = NoResult
    /\ Return(t, loc[t], "True")
    /\ UNCHANGED <<now, last, key_file, cipher_suite, main_window>>

NextConc ==
    \E t \in Threads :
        \/ BeginFacadeSave(t) \/ BeginStoreSave(t) \/ BeginDelete(t)
        \/ CdExec(t) \/ CdFetch(t) \/ Dialog(t) \/ UnExec(t) \/ UnFetch(t)
        \/ SvExec(t) \/ SvFetch(t) \/ SvWrite(t) \/ Del(t)

SpecConc == Init /\ [][NextConc]_vars

(***************************************************************************)
(* get_unique_website_name, one pass of its while loop per step, on tables *)
(* that saves (with CreateNew) and deletes leave behind.                   *)
(***************************************************************************)
\* The base names the function is called with.
NameBases == {<<"a">>, <<"A">>, SuffixedName(<<"a">>, 1)}
\* The websites of the stored records.
NameSites == {<<"a">>, SuffixedName(<<"a">>, 1), SuffixedName(<<"a">>, 2),
              SuffixedName(<<"a">>, 3), <<"A">>}
NameEmails == {<<"x">>, <<"y">>}

\* Sequences of at most MaxNameRows identity pairs, no pair twice.
NameIdLists ==
    UNION {{ids \in [1..n -> NameSites \X NameEmails] :
                \A i, j \in 1..n : i # j => ids[i] # ids[j]} : n \in 0..MaxNameRows}

InitUnique ==
    /\ \E ids \in NameIdLists : rows = TableOf(ids) /\ now = Len(ids)
    /\ last = NoOp
    /\ pc = [t \in Threads |-> "idle"]
    /\ loc = [t \in Threads |-> IdleLoc]
    /\ cursor = NoResult
    /\ key_file = cipher_key
    /\ cipher_suite = cipher_key
    /\ main_window = NoWindow

\* No call of get_unique_website_name is in its loop.
UnIdle == IF last.op = "unique_name" THEN last.done ELSE TRUE

\* get_unique_website_name is called: counter = 1 and the first new_name.
\* probes counts the SELECT COUNT(*) statements executed so far.
UnStart ==
    /\ UnIdle
    /\ \E base_name \in NameBases :
        last' = [op |-> "unique_name", base_name |-> base_name, counter |-> 1,
                 new_name |-> SuffixedName(base_name, 1), probes |-> 0,
                 done |-> FALSE]
    /\ UNCHANGED <<rows, now, pc, loc, cursor, key_file, cipher_suite, main_window>>

\* One pass of the while loop: the SELECT COUNT(*) for new_name, then either
\* the return of new_name or the next counter and name.
UnProbe ==
    /\ ~UnIdle
    /\ IF CountWebsite(rows, last.new_name) = 0
       THEN last' = [last EXCEPT !.probes = @ + 1, !.done = TRUE]
       ELSE last' = [last EXCEPT !.probes = @ + 1,
                                 !.counter = @ + 1,
                                 !.new_name = SuffixedName(last.base_name,
                                                           last.counter + 1)]
    /\ UNCHANGED <<rows, now, pc, loc, cursor, key_file, cipher_suite, main_window>>

NextUnique == UnStart \/ UnProbe

SpecUnique == InitUnique /\ [][NextUnique]_vars

\* The loop is not suspended for ever: the call runs in the Tk event loop's
\* one thread and each pass is a finite statement on a local database.
SpecUniqueLive == SpecUnique /\ WF_vars(UnProbe)

(***************************************************************************)
(* The program on a storage layer that can fail: every call on the store   *)
(* meets a statement that runs or one that raises.                         *)
(***************************************************************************)
\* Sequences of at most MaxQueryRows identity pairs, no pair twice.
FaultIdLists ==
    UNION {{ids \in [1..n -> Sites \X Emails] :
                \A i, j \in 1..n : i # j => ids[i] # ids[j]} : n \in 0..MaxQueryRows}

\* What the search box holds.
SearchTerms == {<<>>, <<"a">>, <<"A">>, <<"b">>}

\* The storage outcomes a facade save can meet.
Faults == [lookup : Storage, unique : Storage, write : Storage]

InitFault ==
    /\ \E ids \in FaultIdLists : rows = TableOf(ids) /\ now = Len(ids)
    /\ last = NoOp
    /\ pc = [t \in Threads |-> "idle"]
    /\ loc = [t \in Threads |-> IdleLoc]
    /\ cursor = NoResult
    /\ key_file = cipher_key
    /\ cipher_suite = cipher_key
    /\ main_window = NoWindow

\* What a read leaves in last.
ReadLast(op, search_term, storage, r) ==
    [op |-> op, search_term |-> search_term, storage |-> storage,
     records |-> r.records, status |-> r.status, popup |-> r.popup]

\* PasswordController.load_initial_passwords
LoadInitial ==
    \E storage \in Storage :
        /\ \E r \in {controller_load_initial_passwords(rows, storage)} :
               last' = ReadLast("load_initial", <<>>, storage, r)
        /\ UNCHANGED <<rows, now, pc, loc, cursor, key_file, cipher_suite, main_window>>

\* PasswordController.refresh_password_list
RefreshList ==
    \E storage \in Storage :
        /\ \E r \in {controller_refresh_password_list(rows, storage)} :
               last' = ReadLast("refresh", <<>>, storage, r)
        /\ UNCHANGED <<rows, now, pc, loc, cursor, key_file, cipher_suite, main_window>>

\* PasswordController.search_passwords
SearchList ==
    \E search_term \in SearchTerms, storage \in Storage :
        /\ \E r \in {controller_search_passwords(rows, search_term, storage)} :
               last' = ReadLast("search", search_term, storage, r)
        /\ UNCHANGED <<rows, now, pc, loc, cursor, key_file, cipher_suite, main_window>>

\* PasswordController.save_password with every field filled in, on a storage
\* layer that can fail each of its calls.
FacadeSaveFaulty ==
    \E website \in Sites, email \in Emails, io \in Faults :
        /\ now < MaxTime
        /\ \E result \in IF check_duplicate_io(rows, website, email, io.lookup).exact_match # <<>>
                         THEN DialogResults ELSE {"None"} :
             \E r \in {controller_save_password_io(rows, website, email, <<"p">>,
                                                   "General", result, "s1", now, io)} :
               /\ rows' = r.rows
               /\ last' = FacadeLast(website, email, <<"p">>, "General", "s1", r)
                              @@ [io |-> io]
               /\ now' = IF r.path \in {"none", "failed"} THEN now ELSE now + 1
        /\ UNCHANGED <<pc, loc, cursor, key_file, cipher_suite, main_window>>

NextFault == LoadInitial \/ RefreshList \/ SearchList \/ FacadeSaveFaulty

SpecFault == InitFault /\ [][NextFault]_vars

(***************************************************************************)
(* The vault over its process runs: the key file and the passwords table   *)
(* outlive a process, the SecurityManager and its cipher suite do not.     *)
(***************************************************************************)
\* The secrets that are encrypted.
Plaintexts == {<<>>, <<"p">>, <<"q", " ", "TAB">>, <<"e_acute", "A">>,
               <<"_", "(", "E_ACUTE", "1">>}
\* The passwords saved in the vault.
VaultPasswords == {<<"p">>, <<"e_acute", "A">>}

\* A new vault: no key file, no record; the first process has constructed
\* its SecurityManager (cipher_suite = None). run counts the processes and
\* since is the clock at the start of the running one.
InitVault ==
    /\ rows = <<>>
    /\ now = 0
    /\ last = [op |-> "start", run |-> 1, since |-> 0]
    /\ pc = [t \in Threads |-> "idle"]
    /\ loc = [t \in Threads |-> IdleLoc]
    /\ cursor = NoResult
    /\ key_file = "none"
    /\ cipher_suite = "None"
    /\ main_window = NoWindow

\* The process ends and the next one starts: SecurityManager() is
\* constructed anew.
NewRun ==
    /\ last.run < MaxRuns
    /\ cipher_suite' = "None"
    /\ last' = [op |-> "start", run |-> last.run + 1, since |-> now]
    /\ UNCHANGED <<rows, now, pc, loc, cursor, key_file, main_window>>

\* SecurityManager.initialize
Initialize ==
    \E key \in Keys, write \in KeyWrites :
        \E r \in {security_initialize(key_file, cipher_suite, key, write)} :
            /\ key_file' = r.key_file
            /\ cipher_suite' = r.cipher_suite
            /\ last' = [op |-> "initialize", run |-> last.run, since |-> last.since,
                        ret |-> r.ret, generated |-> r.generated]
            /\ UNCHANGED <<rows, now, pc, loc, cursor, main_window>>

\* The encrypt-and-save step of PasswordController.save_password for a pair
\* with no stored match: encrypt_data raises in a manager that is not
\* initialised, and the except branch returns the error.
VaultSave ==
    \E email \in Emails, password \in VaultPasswords :
        /\ now < MaxTime
        /\ \E e \in {security_encrypt_data(cipher_suite, password)} :
            IF e.ok
            THEN /\ rows' = db_save_password(rows, <<"a">>, email, e.token, "s1",
                                             "General", now).rows
                 /\ now' = now + 1
                 /\ last' = [op |-> "vault_save", run |-> last.run,
                             since |-> last.since, success |-> TRUE]
            ELSE /\ UNCHANGED <<rows, now, main_window>>
                 /\ last' = [op |-> "vault_save", run |-> last.run,
                             since |-> last.since, success |-> FALSE]
        /\ UNCHANGED <<pc, loc, cursor, key_file, cipher_suite, main_window>>

\* PasswordController.show_password_popup on a listed record: decrypt_password
\* and the popup, or the error message when decrypt_data raises.
Reveal ==
    \E i \in 1..Len(rows) :
        /\ \E d \in {controller_show_password_popup(cipher_suite,
                                                   rows[i].encrypted_password)} :
            last' = [op |-> "reveal", run |-> last.run, since |-> last.since,
                     i |-> i, ok |-> d.ok, password |-> d.password]
        /\ UNCHANGED <<rows, now, pc, loc, cursor, key_file, cipher_suite, main_window>>

\* show_password_popup on a listed record whose stored token was damaged
\* since it was written.
RevealDamaged ==
    \E i \in 1..Len(rows), how \in Damages, other_key \in Keys :
        /\ other_key # rows[i].encrypted_password.key
        /\ \E token \in {Damage(rows[i].encrypted_password, how, other_key)} :
           \E d \in {controller_show_password_popup(cipher_suite, token)} :
            last' = [op |-> "reveal_damaged", run |-> last.run,
                     since |-> last.since, i |-> i, how |-> how,
                     ok |-> d.ok, shown |-> d.shown, password |-> d.password]
        /\ UNCHANGED <<rows, now, pc, loc, cursor, key_file, cipher_suite, main_window>>

\* encrypt_data and then decrypt_data of what it returned, in one manager.
RoundTrip ==
    \E p \in Plaintexts :
        /\ \E e \in {security_encrypt_data(cipher_suite, p)} :
            \E d \in {IF e.ok THEN security_decrypt_data(cipher_suite, e.token)
                       ELSE [ok |-> FALSE, str |-> <<>>]} :
            last' = [op |-> "round_trip", run |-> last.run, since |-> last.since,
                     p |-> p, encrypted |-> e.ok, ok |-> d.ok, decrypted |-> d.str]
        /\ UNCHANGED <<rows, now, pc, loc, cursor, key_file, cipher_suite, main_window>>

NextVault ==
    NewRun \/ Initialize \/ VaultSave \/ Reveal \/ RevealDamaged \/ RoundTrip

SpecVault == InitVault /\ [][NextVault]_vars

(***************************************************************************)
(* The vault used end to end through the facade: save, list, reveal and    *)
(* delete in one initialised process.                                      *)
(***************************************************************************)
UseSites == {<<"a">>}
UseEmails == {<<"x">>}
UseCategories == {"General", "Banking"}

\* An initialised empty vault. stage follows the scenario save, list, reveal,
\* delete, list from a successful save on the empty vault (0: not in it) and
\* saved is what that save was given.
NoSaved == [website |-> <<>>, email |-> <<>>, password |-> <<>>, category |-> "General"]

InitUse ==
    /\ rows = <<>>
    /\ now = 0
    /\ last = [op |-> "start", stage |-> 0, saved |-> NoSaved]
    /\ pc = [t \in Threads |-> "idle"]
    /\ loc = [t \in Threads |-> IdleLoc]
    /\ cursor = NoResult
    /\ key_file \in Keys
    /\ cipher_suite = key_file
    /\ main_window = NoWindow

\* PasswordController.save_password
UseSave ==
    \E website \in UseSites, email \in UseEmails, password \in VaultPasswords,
       category \in UseCategories :
        /\ now < MaxTime
        /\ \E result \in IF check_duplicate(rows, website, email).exact_match # <<>>
                         THEN DialogResults ELSE {"None"} :
             \E r \in {controller_save_password_cs(cipher_suite, rows, website, email,
                            password, category, result, "s1", now)} :
               /\ rows' = r.rows
               /\ last' = [op |-> "save", success |-> r.success, message |-> r.message,
                           stage |-> IF r.success /\ rows = <<>> THEN 1 ELSE 0,
                           saved |-> IF r.success /\ rows = <<>>
                                     THEN [website |-> website, email |-> email,
                                           password |-> password, category |-> category]
                                     ELSE NoSaved]
        /\ now' = now + 1
        /\ UNCHANGED <<pc, loc, cursor, key_file, cipher_suite, main_window>>

\* DatabaseManager.load_passwords
UseList ==
    /\ last' = [op |-> "list", records |-> db_load_passwords(rows, "ok"),
                stage |-> CASE last.stage = 1 -> 2
                            [] last.stage = 4 -> 5
                            [] OTHER -> 0,
                saved |-> IF last.stage \in {1, 4} THEN last.saved ELSE NoSaved]
    /\ UNCHANGED <<rows, now, pc, loc, cursor, key_file, cipher_suite, main_window>>

\* PasswordController.show_password_popup on a row of the list.
UseReveal ==
    \E records \in {db_load_passwords(rows, "ok")} :
      \E i \in 1..Len(records) :
        \E d \in {controller_show_password_popup(cipher_suite,
                                                  records[i].encrypted_password)} :
            /\ last' = [op |-> "reveal", ok |-> d.ok, password |-> d.password,
                        stage |-> IF last.stage = 2 THEN 3 ELSE 0,
                        saved |-> IF last.stage = 2 THEN last.saved ELSE NoSaved]
            /\ UNCHANGED <<rows, now, pc, loc, cursor, key_file, cipher_suite, main_window>>

\* PasswordController.delete_password on a listed record or on a pair that
\* is not stored, with the answer to the confirmation.
UseDelete ==
    \E target \in DeleteTargets, confirm \in BOOLEAN :
        \E r \in {controller_delete_password(rows, target[1], target[2], confirm)} :
            /\ rows' = r.rows
            /\ last' = [op |-> "delete", ret |-> r.ret, popup |-> r.popup,
                        records |-> r.records,
                        stage |-> IF last.stage = 3 /\ confirm
                                     /\ target = <<last.saved.website, last.saved.email>>
                                  THEN 4 ELSE 0,
                        saved |-> IF last.stage = 3 /\ confirm
                                     /\ target = <<last.saved.website, last.saved.email>>
                                  THEN last.saved ELSE NoSaved]
            /\ UNCHANGED <<now, pc, loc, cursor, key_file, cipher_suite, main_window>>

NextUse == UseSave \/ UseList \/ UseReveal \/ UseDelete

SpecUse == InitUse /\ [][NextUse]_vars

(***************************************************************************)
(* The password generator behind the form: a policy is set in the form and *)
(* a password is generated for it.                                         *)
(***************************************************************************)
\* The lengths the length field is given.
PolicyLengths == 6..52
\* The texts of the symbols and the numbers entry.
SymbolEntries == {<<>>, <<"_">>}
NumberEntries == {<<" ">>, <<"a", "1">>}

\* The form of a policy that was not put to the generator yet.
InitPolicy ==
    /\ rows = <<>>
    /\ now = 0
    /\ last \in [op : {"policy"}, length : PolicyLengths,
                  use_lowercase : BOOLEAN, use_uppercase : BOOLEAN,
                  use_numbers : BOOLEAN, use_symbols : BOOLEAN,
                  symbols_entry : SymbolEntries, numbers_entry : NumberEntries]
    /\ pc = [t \in Threads |-> "idle"]
    /\ loc = [t \in Threads |-> IdleLoc]
    /\ cursor = NoResult
    /\ key_file = cipher_key
    /\ cipher_suite = cipher_key
    /\ main_window = NoWindow

\* PasswordForm.generate_advanced_password
Generate ==
    /\ last.op = "policy"
    /\ \E g \in form_generate_advanced_password(last.length, last.use_lowercase,
                  last.use_uppercase, last.use_numbers, last.use_symbols,
                  last.symbols_entry, last.numbers_entry) :
          last' = [op |-> "generate", policy |-> last, ok |-> g.ok,
                   password |-> g.password, popup |-> g.popup]
    /\ UNCHANGED <<rows, now, pc, loc, cursor, key_file, cipher_suite, main_window>>

NextPolicy == Generate

SpecPolicy == InitPolicy /\ [][NextPolicy]_vars

(***************************************************************************)
(* The strength check of the password field: a password is entered and     *)
(* checked, characters are added to it and it is checked again.            *)
(***************************************************************************)
\* The largest number of padding characters of an entered password.
MaxPad == 17

\* The characters passwords are entered from: a letter, a digit and a listed
\* symbol, letters outside ASCII, and a blank and a symbol that is not
\* listed.
StrengthChars == {"a", "A", "1", "!", "e_acute", "E_ACUTE", " ", "~"}
\* The characters a password is padded with.
PadChars == {"a", " "}

\* n times the character c.
Repeat(c, n) == [i \in 1..n |-> c]

\* The passwords entered first: up to two characters and a padding.
EnteredPasswords ==
    {core \o Repeat(c, n) :
        core \in {<<>>} \cup {<<x>> : x \in StrengthChars}
                  \cup {<<x, y>> : x \in StrengthChars, y \in StrengthChars},
        c \in PadChars, n \in 0..MaxPad}

\* What is added to a password: one character, or four or eight times a
\* padding character.
Additions ==
    {<<x>> : x \in StrengthChars}
    \cup {Repeat(c, n) : c \in PadChars, n \in {4, 8}}

\* The password field when the strength of an entered password was shown.
InitStrength ==
    /\ rows = <<>>
    /\ now = 0
    /\ \E password \in EnteredPasswords :
          last = [op |-> "strength", password |-> password,
                  strength |-> check_password_strength(password)]
    /\ pc = [t \in Threads |-> "idle"]
    /\ loc = [t \in Threads |-> IdleLoc]
    /\ cursor = NoResult
    /\ key_file = cipher_key
    /\ cipher_suite = cipher_key
    /\ main_window = NoWindow

\* Characters are added before or after the password, and
\* check_password_strength is called on the new one.
AddAndCheck ==
    /\ last.op = "strength"
    /\ \E added \in Additions, front \in BOOLEAN :
         \E password \in {IF front THEN added \o last.password
                           ELSE last.password \o added} :
            last' = [op |-> "strength_again", password |-> password,
                     strength |-> check_password_strength(password),
                     before |-> last]
    /\ UNCHANGED <<rows, now, pc, loc, cursor, key_file, cipher_suite, main_window>>

\* The characters the first ones of a password are typed over with.
Overtyped == {<<"A">>, <<"A", "a", "1", "!">>, <<"~", " ">>}

\* The first characters of the password are typed over, none of its
\* characters being lost by it, and check_password_strength is called on
\* the new one.
OvertypeAndCheck ==
    /\ last.op = "strength"
    /\ \E typed \in Overtyped :
         /\ Len(typed) <= Len(last.password)
         /\ \E password \in {typed \o SubSeq(last.password, Len(typed) + 1,
                                                Len(last.password))} :
              /\ CharsOf(last.password) \subseteq CharsOf(password)
              /\ last' = [op |-> "strength_again", password |-> password,
                          strength |-> check_password_strength(password),
                          before |-> last]
    /\ UNCHANGED <<rows, now, pc, loc, cursor, key_file, cipher_suite, main_window>>

NextStrength == AddAndCheck \/ OvertypeAndCheck

SpecStrength == InitStrength /\ [][NextStrength]_vars

(***************************************************************************)
(* The list view over a store: filter keystrokes, clear filter, refresh,   *)
(* delete of the selected row and auto-fill from the selected row.         *)
(***************************************************************************)
\* The largest number of records of the store the view is opened on.
MaxViewRows == 3

ViewSites == {<<"a">>, <<"b">>}
ViewEmails == {<<"x">>, <<"y">>}
\* What is typed in the search entry of the list.
ViewTerms == {<<>>, <<"a">>, <<"B">>, <<"y">>}

\* Sequences of at most MaxViewRows identity pairs, no pair twice.
ViewIdLists ==
    UNION {{ids \in [1..n -> ViewSites \X ViewEmails] :
                \A i, j \in 1..n : i # j => ids[i] # ids[j]} : n \in 0..MaxViewRows}

\* The password and the category saved for an identity pair.
ViewPassword(id) == id[1] \o id[2]
ViewCategory(id) == IF id[2] = <<"x">> THEN "General" ELSE "Banking"

\* The table after facade saves of these identity pairs, in this order, by
\* a manager that holds the key cipher_key.
ViewTableOf(ids) ==
    [i \in 1..Len(ids) |->
        Row(ids[i][1], ids[i][2],
            security_encrypt_data(cipher_key, ViewPassword(ids[i])).token,
            "s1", i - 1, ViewCategory(ids[i]))]

\* The window as PasswordList.__init__ leaves it: the passwords of
\* load_initial_passwords are in the list. loaded is what was last loaded
\* from the store.
InitView ==
    /\ \E ids \in ViewIdLists : rows = ViewTableOf(ids)
    /\ now = 0
    /\ last = [op |-> "open", loaded |-> db_load_passwords(rows, "ok")]
    /\ pc = [t \in Threads |-> "idle"]
    /\ loc = [t \in Threads |-> IdleLoc]
    /\ cursor = NoResult
    /\ key_file = cipher_key
    /\ cipher_suite = cipher_key
    /\ main_window =
          [NoWindow EXCEPT !.password_list =
              list_update_list(@, controller_load_initial_passwords(rows, "ok").records)]

\* A key is released in the search entry, which then holds term.
ViewSearchKey ==
    \E term \in ViewTerms :
        /\ main_window' =
              [main_window EXCEPT !.password_list =
                  list_on_search([@ EXCEPT !.search_var = term])]
        /\ last' = [op |-> "on_search", term |-> term, loaded |-> last.loaded]
        /\ UNCHANGED <<rows, now, pc, loc, cursor, key_file, cipher_suite>>

\* The Clear button of the list.
ViewClearFilter ==
    /\ main_window' =
          [main_window EXCEPT !.password_list = list_clear_filter(@)]
    /\ last' = [op |-> "clear_filter", loaded |-> last.loaded]
    /\ UNCHANGED <<rows, now, pc, loc, cursor, key_file, cipher_suite>>

\* PasswordController.refresh_password_list
ViewRefresh ==
    \E r \in {controller_refresh_password_list(rows, "ok")} :
        /\ main_window' =
              [main_window EXCEPT !.password_list = list_update_list(@, r.records)]
        /\ last' = [op |-> "refresh", loaded |-> r.records]
        /\ UNCHANGED <<rows, now, pc, loc, cursor, key_file, cipher_suite>>

\* PasswordList.delete_selected_password on a row of the tree, confirmed:
\* the store's delete and the refresh of the list.
ViewDelete ==
    \E i \in 1..Len(main_window.password_list.tree) :
        \E row \in {main_window.password_list.tree[i]} :
          \E r \in {controller_delete_password(rows, row.website, row.email, TRUE)} :
            /\ rows' = r.rows
            /\ main_window' =
                  [main_window EXCEPT !.password_list = list_update_list(@, r.records)]
            /\ last' = [op |-> "delete", loaded |-> r.records]
            /\ UNCHANGED <<now, pc, loc, cursor, key_file, cipher_suite>>

\* PasswordList.auto_fill_from_selection on a row of the tree.
ViewAutoFill ==
    \E i \in 1..Len(main_window.password_list.tree) :
        \E row \in {main_window.password_list.tree[i]} :
          \E r \in {list_auto_fill_from_selection(rows, cipher_suite, row,
                                                  main_window.password_form)} :
            /\ main_window' = [main_window EXCEPT !.password_form = r.password_form]
            /\ last' = [op |-> "auto_fill", row |-> row, popup |-> r.popup,
                        loaded |-> last.loaded]
            /\ UNCHANGED <<rows, now, pc, loc, cursor, key_file, cipher_suite>>

NextView ==
    ViewSearchKey \/ ViewClearFilter \/ ViewRefresh \/ ViewDelete \/ ViewAutoFill

SpecView == InitView /\ [][NextView]_vars

(***************************************************************************)
(* Properties of the sequential program.                                   *)
(***************************************************************************)
\* i is the position of the stored record with this identity pair.
HoldsIdentity(t, i, website, email) ==
    t[i].website = website /\ t[i].email = email

\* name is base followed by " (n)" for the smallest n >= 1 no stored site has.
IsFirstFreeName(t, base, name) ==
    \E n \in 1..(Len(t) + 1) :
        /\ name = SuffixedName(base, n)
        /\ \A i \in 1..Len(t) : t[i].website # name
        /\ \A m \in 1..(n - 1) :
               \E i \in 1..Len(t) : t[i].website = SuffixedName(base, m)

\* The row a save of these values at this time stores.
StoredRow(website, email, password, salt, category, time) ==
    Row(website, email, [key |-> cipher_key, pt |-> password], salt, time, category)

\* C2: a facade save that hit an exact conflict writes to the store only
\* under a recorded choice of Overwrite or CreateNew; a prompt that ends with
\* no choice recorded causes no insert and no update.
C2_WriteOnlyUnderChoice ==
    (last.op = "facade_save" /\ last.exact_match # <<>> /\ last.path # "none")
        => last.dialog \in {"overwrite", "create_new"}

\* C3: a facade save resolved with Overwrite replaces secret, category and
\* timestamp of the very record reported as the exact match and leaves the
\* number of records unchanged, whatever the letter case of the entered
\* identity.
C3_OverwriteReplacesReported ==
    [][(last'.op = "facade_save" /\ last'.dialog = "overwrite") =>
        /\ Len(rows') = Len(rows)
        /\ \E i \in 1..Len(rows) :
            /\ DupInfo(rows[i]) = last'.exact_match[1]
            /\ rows'[i] = StoredRow(rows[i].website, rows[i].email, last'.password,
                                    last'.salt, last'.category, now)
            /\ \A j \in 1..Len(rows) : j # i => rows'[j] = rows[j]]_vars

\* C4: a facade save resolved with CreateNew appends exactly one record, whose
\* site is the entered site with the first free " (n)" suffix and whose
\* account is the entered account; every record stored before is unchanged.
C4_CreateNewInsertsOne ==
    [][(last'.op = "facade_save" /\ last'.dialog = "create_new") =>
        /\ Len(rows') = Len(rows) + 1
        /\ SubSeq(rows', 1, Len(rows)) = rows
        /\ IsFirstFreeName(rows, last'.website, rows'[Len(rows')].website)
        /\ rows'[Len(rows')] =
               StoredRow(rows'[Len(rows')].website, last'.email, last'.password,
                         last'.salt, last'.category, now)]_vars

\* C4 witness: CreateNew skipped the taken " (1)" and stored " (2)".
C4_Witness ==
    /\ last.op = "facade_save"
    /\ last.dialog = "create_new"
    /\ last.success
    /\ last.saved_as = last.website \o <<" ", "(", "2", ")">>
    /\ \E i \in 1..Len(rows) : rows[i].website = last.saved_as
    /\ \E i \in 1..Len(rows) : rows[i].website = last.website

\* C5: a facade save resolved with Cancel leaves the store as it was and
\* returns an unsuccessful, cancelled result.
C5_CancelChangesNothing ==
    [][(last'.op = "facade_save" /\ last'.dialog = "cancel") =>
        /\ rows' = rows
        /\ ~last'.success
        /\ last'.message = "Operation cancelled"]_vars

\* C5 witness: a save was cancelled in front of a stored exact match.
C5_Witness ==
    /\ last.op = "facade_save"
    /\ last.dialog = "cancel"
    /\ last.exact_match # <<>>
    /\ rows # <<>>

\* C6: with no exact match and at least one near match the facade save is
\* not blocked (the record is saved) and the near matches are surfaced.
C6_NearConflictSurfaced ==
    (last.op = "facade_save" /\ last.dialog = "not_shown"
     /\ last.exact_match = <<>> /\ last.duplicates # <<>>)
        => /\ last.success
           /\ last.path \in {"insert", "update"}
           /\ last.shown = last.duplicates

\* C8: a store save of a pair not yet stored appends one record with the
\* given fields and the current time; of a stored pair, replaces that
\* record's secret, category and timestamp in place; no other record changes.
C8_StoreSaveInsertsOrReplaces ==
    [][last'.op = "store_save" =>
        LET given == Row(last'.website, last'.email, last'.encrypted_password,
                         last'.salt, now, last'.category)
        IN  IF \E i \in 1..Len(rows) : HoldsIdentity(rows, i, last'.website, last'.email)
            THEN /\ Len(rows') = Len(rows)
                 /\ \A i \in 1..Len(rows) :
                        rows'[i] = IF HoldsIdentity(rows, i, last'.website, last'.email)
                                   THEN given ELSE rows[i]
            ELSE rows' = Append(rows, given)]_vars

\* C8 witness: a store save replaced one record while another was stored.
C8_Witness ==
    /\ last.op = "store_save"
    /\ last.path = "update"
    /\ Len(rows) >= 2
    /\ \E i \in 1..Len(rows) :
        /\ HoldsIdentity(rows, i, last.website, last.email)
        /\ rows[i].encrypted_password = last.encrypted_password

\* C9: the facade save reports "updated" exactly when its write replaced a
\* stored record and "saved" exactly when its write inserted one.
C9_MessageTellsWrite ==
    (last.op = "facade_save" /\ last.success) =>
        /\ last.message = "Password updated for" <=> last.path = "update"
        /\ last.message = "Password saved for" <=> last.path = "insert"

\* C12: a store delete returns true exactly when a record with that identity
\* pair was stored and has been removed, and false when none was stored.
C12_DeleteTellsRemoval ==
    [][last'.op = "store_delete" =>
        (last'.ret = "True" <=>
            /\ \E i \in 1..Len(rows) :
                   HoldsIdentity(rows, i, last'.website, last'.email)
            /\ \A i \in 1..Len(rows') :
                   ~HoldsIdentity(rows', i, last'.website, last'.email))]_vars

\* C13: a store delete removes the one record with exactly that identity
\* pair, if there is one, and leaves every other record as it was, in place;
\* with no such record the store is unchanged.
C13_DeleteRemovesOnlyThePair ==
    [][last'.op = "store_delete" =>
        IF \E i \in 1..Len(rows) : HoldsIdentity(rows, i, last'.website, last'.email)
        THEN \E i \in 1..Len(rows) :
                /\ HoldsIdentity(rows, i, last'.website, last'.email)
                /\ rows' = SubSeq(rows, 1, i - 1) \o SubSeq(rows, i + 1, Len(rows))
        ELSE rows' = rows]_vars

\* C13 witness: a delete removed one record and left another one, of the same
\* site, in the store.
C13_Witness ==
    /\ last.op = "store_delete"
    /\ last.removed = 1
    /\ \E i \in 1..Len(rows) :
        rows[i].website = last.website /\ rows[i].email # last.email

\* The value is empty or whitespace only.
IsBlank(s) == \A i \in 1..Len(s) : s[i] \in Whitespace

\* The messages of the validation.
ValidationMessages ==
    {"Website is required", "Email/Username is required", "Password is required"}

\* C18: a facade save whose website, email or password is empty or whitespace
\* only returns a validation failure; the store is unchanged, no duplicate
\* check is made (no match is reported, no dialog shown) and no write.
C18_InvalidSaveDoesNothing ==
    [][(/\ last'.op = "facade_save"
        /\ (IsBlank(last'.website) \/ IsBlank(last'.email) \/ IsBlank(last'.password)))
       => /\ rows' = rows
          /\ ~last'.success
          /\ last'.message \in ValidationMessages
          /\ last'.exact_match = <<>> /\ last'.duplicates = <<>>
          /\ last'.dialog = "not_shown"
          /\ last'.path = "none"]_vars

\* C18 witness: a save with a whitespace-only password was refused in front
\* of a stored record of the entered pair, which a duplicate check would
\* have reported.
C18_Witness ==
    /\ last.op = "facade_save"
    /\ last.password = <<" ", "TAB">>
    /\ last.message = "Password is required"
    /\ \E i \in 1..Len(rows) : HoldsIdentity(rows, i, last.website, last.email)

(***************************************************************************)
(* Properties of get_unique_website_name.                                  *)
(***************************************************************************)
\* C14: get_unique_website_name returns the base name followed by " (n)" for
\* the smallest n >= 1 that no stored record has as its website, and what it
\* returns is the website of no stored record.
C14_FirstFreeSuffix ==
    (last.op = "unique_name" /\ last.done) =>
        /\ IsFirstFreeName(rows, last.base_name, last.new_name)
        /\ \A i \in 1..Len(rows) : rows[i].website # last.new_name

\* C14 witness: on a store holding "a" and "a (1)" the call for "a" returned
\* "a (2)".
C14_Witness ==
    /\ last.op = "unique_name" /\ last.done
    /\ last.base_name = <<"a">>
    /\ last.new_name = <<"a", " ", "(", "2", ")">>
    /\ \E i \in 1..Len(rows) : rows[i].website = <<"a">>
    /\ \E i \in 1..Len(rows) : rows[i].website = <<"a", " ", "(", "1", ")">>

\* C15: every call of get_unique_website_name returns, and it has executed
\* at most (number of stored records + 1) probes of the store.
C15_TerminatesWithinBound ==
    /\ [](last.op = "unique_name" => last.probes <= Len(rows) + 1)
    /\ ~UnIdle ~> UnIdle

\* C15 witness: a call returned after (number of stored records + 1) probes
\* on a store of three records.
C15_Witness ==
    /\ last.op = "unique_name" /\ last.done
    /\ Len(rows) = 3
    /\ last.probes = Len(rows) + 1

(***************************************************************************)
(* Properties of the program on a failing storage layer.                   *)
(***************************************************************************)
\* The reads of the facade.
ReadOps == {"load_initial", "refresh", "search"}

\* C16: a search or list whose statement failed in the storage layer is not
\* delivered as an empty list of records with no error shown: the failure
\* reaches the facade as an error, distinguishable from "no records".
C16_FailedReadIsNoEmptyResult ==
    (last.op \in ReadOps /\ last.storage = "fail")
        => ~(last.records = <<>> /\ last.popup = "none")

\* C17: when the duplicate lookup of a facade save fails, no exact and no
\* near match is reported, no dialog is shown, and the save goes on to the
\* write step: the record is stored whenever the write itself runs.
C17_FailedLookupDoesNotBlock ==
    (last.op = "facade_save" /\ "io" \in DOMAIN last /\ last.io.lookup = "fail")
        => /\ last.exact_match = <<>>
           /\ last.duplicates = <<>>
           /\ last.dialog = "not_shown"
           /\ last.path # "none"
           /\ last.io.write = "ok" =>
                  /\ last.success
                  /\ \E i \in 1..Len(rows) :
                         /\ HoldsIdentity(rows, i, last.website, last.email)
                         /\ rows[i].encrypted_password.pt = last.password

\* C17 witness: the lookup failed in front of a stored record of the entered
\* pair, and the save went on and replaced that record.
C17_Witness ==
    /\ last.op = "facade_save" /\ "io" \in DOMAIN last
    /\ last.io.lookup = "fail"
    /\ last.path = "update"
    /\ last.success

(***************************************************************************)
(* Properties of the vault over its process runs.                          *)
(***************************************************************************)
\* C19: initialize makes and writes a key only when there is no key file; a
\* key file that exists is left as it is and, when initialize returns, its
\* key is the one loaded. So the running manager's key is the key file's,
\* every stored record is encrypted under it, and an initialised manager of
\* any run decrypts every stored record.
C19_OneKeyPerVault ==
    /\ [][last'.op = "initialize" =>
            /\ key_file # "none" =>
                   /\ key_file' = key_file
                   /\ last'.ret = "True" => cipher_suite' = key_file
            /\ key_file' # key_file => key_file = "none"]_vars
    /\ [](/\ cipher_suite # "None" => cipher_suite = key_file
          /\ \A i \in 1..Len(rows) : rows[i].encrypted_password.key = key_file
          /\ (last.op = "reveal" /\ cipher_suite # "None") => last.ok)

\* C19 witness: in a later run, initialize found the key file and the
\* manager revealed a record that an earlier run had stored.
C19_Witness ==
    /\ last.op = "reveal"
    /\ last.ok
    /\ last.run = 3
    /\ rows[last.i].date_added < last.since
    /\ last.password = <<"e_acute", "A">>

\* C20: in an initialised security manager, encrypt_data returns for every
\* plaintext, and decrypt_data of what it returned gives the plaintext back.
C20_RoundTrip ==
    (last.op = "round_trip" /\ cipher_suite # "None") =>
        /\ last.encrypted
        /\ last.ok
        /\ last.decrypted = last.p

\* C20 witness: a plaintext with characters of one and of two bytes came
\* back from the round trip.
C20_Witness ==
    /\ last.op = "round_trip"
    /\ last.ok
    /\ last.p = <<"_", "(", "E_ACUTE", "1">>
    /\ last.decrypted = last.p

\* C21: decrypt fails closed. For a stored token that was modified, cut short
\* or made under another key, decrypt_data raises and returns no plaintext,
\* and show_password_popup shows the error message and no password.
C21_DecryptFailsClosed ==
    last.op = "reveal_damaged" =>
        /\ ~last.ok
        /\ last.password = <<>>
        /\ last.shown = "showerror"
        /\ \A how \in Damages, other_key \in Keys :
              other_key # rows[last.i].encrypted_password.key =>
                ~security_decrypt_data(cipher_suite,
                     Damage(rows[last.i].encrypted_password, how, other_key)).ok

\* An initialised manager is shown a token of another key and refuses it,
\* while the undamaged token of the same record decrypts.
C21_Witness ==
    /\ last.op = "reveal_damaged"
    /\ last.how = "other_key"
    /\ cipher_suite \in Keys
    /\ last.shown = "showerror"
    /\ security_decrypt_data(cipher_suite, rows[last.i].encrypted_password).ok

\* C22: end to end on an initialised empty vault. After a successful facade
\* save the list holds exactly one record, with the saved category; reveal of
\* that record's stored secret gives exactly the saved password; the delete
\* of the saved pair returns true; and the list is then empty.
C22_EndToEnd ==
    /\ last.stage = 1 => last.success
    /\ last.stage = 2 =>
          /\ Len(last.records) = 1
          /\ last.records[1].category = last.saved.category
          /\ last.records[1].website = last.saved.website
          /\ last.records[1].email = last.saved.email
    /\ last.stage = 3 => last.ok /\ last.password = last.saved.password
    /\ last.stage = 4 => last.ret = "True"
    /\ last.stage = 5 => last.records = <<>>

\* The scenario was run to its end for a banking record with a password of
\* non-ASCII text.
C22_Witness ==
    /\ last.stage = 5
    /\ last.op = "list"
    /\ last.saved.category = "Banking"
    /\ last.saved.password = <<"e_acute", "A">>
    /\ rows = <<>>

\* C23: after any sequence of saves and deletes, load_passwords returns
\* every stored record exactly once, in ascending order of the website.
C23_ListAllComplete ==
    last.op = "store_list" =>
        /\ Len(last.records) = Len(rows)
        /\ \A i \in 1..Len(rows) :
              Cardinality({j \in 1..Len(last.records) :
                              last.records[j] = ListInfo(rows[i])}) = 1
        /\ \A j, k \in 1..Len(last.records) :
              j < k => ~BinaryLess(last.records[k].website, last.records[j].website)

\* After a delete, two records are listed in another order than they were
\* written in.
C23_Witness ==
    /\ last.op = "store_list"
    /\ Len(rows) = 2
    /\ last.records[1] = ListInfo(rows[2])
    /\ rows[1].date_added > 0

(***************************************************************************)
(* Properties of the password generator.                                   *)
(***************************************************************************)
\* The policy has a class enabled.
SomeClass(policy) ==
    policy.use_lowercase \/ policy.use_uppercase \/ policy.use_numbers
        \/ policy.use_symbols

\* C24: the generator raises, and returns no password, when the length is
\* below 8 or above 50 or when no character class is enabled; for every
\* length in 8..50 with a class enabled it returns a password.
C24_InvalidPolicyRejected ==
    last.op = "generate" =>
        IF last.policy.length \in 8..50 /\ SomeClass(last.policy)
        THEN last.ok /\ last.password # <<>>
        ELSE ~last.ok /\ last.password = <<>>
               /\ last.popup = "Error generating password"

\* A policy of length 50 with one class enabled was served, and the same
\* policy is refused at lengths 7 and 51.
C24_Witness ==
    /\ last.op = "generate"
    /\ last.policy.length = 50
    /\ last.ok
    /\ Len(last.password) = 50
    /\ ~last.policy.use_lowercase /\ ~last.policy.use_uppercase
    /\ ~last.policy.use_numbers
    /\ \A length \in {7, 51} :
         \A g \in form_generate_advanced_password(length, FALSE, FALSE, FALSE,
                    TRUE, last.policy.symbols_entry, last.policy.numbers_entry) :
            ~g.ok

\* The alphabet the generator uses for a class of the policy.
ClassAlphabets(policy) ==
    (IF policy.use_lowercase THEN {LowercaseLetters} ELSE {})
    \cup (IF policy.use_uppercase THEN {UppercaseLetters} ELSE {})
    \cup (IF policy.use_numbers
          THEN {get_custom(policy.numbers_entry, default_numbers)} ELSE {})
    \cup (IF policy.use_symbols
          THEN {get_custom(policy.symbols_entry, default_symbols)} ELSE {})

Has(password, set) == IF CharsOf(password) \cap set # {} THEN 1 ELSE 0

\* The score the claim gives the password.
ClaimedScore(password) ==
    Cardinality({n \in {8, 12, 16} : Len(password) >= n})
    + Has(password, CharsOf(LowercaseLetters) \cup {"e_acute"})
    + Has(password, CharsOf(UppercaseLetters) \cup {"E_ACUTE"})
    + Has(password, CharsOf(default_numbers))
    + Has(password, CharsOf(default_symbols))

\* The level of each score, in the order of the table.
LevelTable ==
    <<"Very Weak", "Very Weak", "Weak", "Fair", "Good", "Strong",
      "Very Strong", "Excellent">>

\* C26: the score is the number of the length thresholds 8, 12 and 16 the
\* password reaches plus one for each of lowercase, uppercase, digit and
\* symbol it holds; it is within 0..7, and the level is the one the table
\* gives that score.
C26_ScoreAndLevel ==
    last.op \in {"strength", "strength_again"} =>
        /\ last.strength.score = ClaimedScore(last.password)
        /\ last.strength.score \in 0..7
        /\ last.strength.level = LevelTable[last.strength.score + 1]

\* A password of sixteen characters with all four classes scores 7, and one
\* of blanks and an unlisted symbol scores 0.
C26_Witness ==
    /\ last.op = "strength_again"
    /\ Len(last.password) = 16
    /\ last.strength.score = 7
    /\ last.strength.level = "Excellent"
    /\ check_password_strength(<<"~", " ">>).score = 0

\* C27: a password made from another by adding characters never scores
\* lower than it.
C27_StrengthMonotone ==
    last.op = "strength_again" =>
        /\ Len(last.before.password) <= Len(last.password)
        /\ CharsOf(last.before.password) \subseteq CharsOf(last.password)
        /\ last.before.strength.score <= last.strength.score

\* "aaaaaaaa" was made "Aa1!aaaa" and the score went up from 2 to 5, and
\* adding a character takes a password over a length threshold.
C27_Witness ==
    /\ last.op = "strength_again"
    /\ last.before.password = Repeat("a", 8)
    /\ last.password = <<"A", "a", "1", "!">> \o Repeat("a", 4)
    /\ last.before.strength.score = 2
    /\ last.strength.score = 5
    /\ check_password_strength(Repeat("a", 7)).score
         < check_password_strength(Repeat("a", 8)).score

(***************************************************************************)
(* Properties of the list view.                                            *)
(***************************************************************************)
\* C28: after any sequence of filter keystrokes, clear_filter shows all the
\* passwords that were last loaded from the store, not only those the last
\* filter left.
C28_ClearFilterShowsAllLoaded ==
    last.op = "clear_filter" =>
        main_window.password_list.tree = last.loaded

\* The record of the store that the row of the tree stands for.
RecordOfRow(row) ==
    CHOOSE r \in {rows[i] : i \in 1..Len(rows)} :
        r.website = row.website /\ r.email = row.email

\* C29: auto-fill from a selected row puts in the form the account, the
\* category and the decrypted password of the record with that row's
\* website and email, also when the store holds several accounts for the
\* website.
C29_AutoFillOfSelectedRecord ==
    (last.op = "auto_fill"
        /\ \E i \in 1..Len(rows) : rows[i].website = last.row.website
                                     /\ rows[i].email = last.row.email) =>
        /\ main_window.password_form.website = last.row.website
        /\ main_window.password_form.email = last.row.email
        /\ main_window.password_form.category = RecordOfRow(last.row).category
        /\ security_encrypt_data(cipher_suite, main_window.password_form.password).token
             = RecordOfRow(last.row).encrypted_password

(***************************************************************************)
(* Properties of the duplicate lookup.                                     *)
(***************************************************************************)
\* text contains term, letter case ignored.
ContainsNoCase(text, term) ==
    \E k \in 1..(Len(text) - Len(term) + 1) :
        SubSeq(LowerStr(text), k, k + Len(term) - 1) = LowerStr(term)

\* The stored record at i equals the query on both fields, letter case ignored.
SameNoCase(t, i, website, email) ==
    /\ LowerStr(t[i].website) = LowerStr(website)
    /\ LowerStr(t[i].email) = LowerStr(email)

\* C7: check_duplicate returns as exact match a stored record equal to the
\* query on both fields case-insensitively (none if there is none), and as
\* near matches exactly the other stored records whose site contains the
\* queried site or whose account contains the queried account.
C7_ExactAndNearMatches ==
    last.op = "check_duplicate" =>
        LET exact == {i \in 1..Len(rows) : SameNoCase(rows, i, last.website, last.email)}
            near == {i \in 1..Len(rows) :
                        /\ i \notin exact
                        /\ \/ ContainsNoCase(rows[i].website, last.website)
                           \/ ContainsNoCase(rows[i].email, last.email)}
        IN  /\ exact = {} => last.exact_match = <<>>
            /\ exact # {} => \E i \in exact : last.exact_match = <<DupInfo(rows[i])>>
            /\ {last.duplicates[k] : k \in 1..Len(last.duplicates)}
                   = {DupInfo(rows[i]) : i \in near}

\* C30: the duplicate lookup loses no candidate. In every store state
\* reached by saves, each stored record whose site contains the queried site
\* or whose account contains the queried account is returned as the exact
\* match or in the list of near matches. (The lookup is the one a facade save
\* with every field filled in makes on the store as it is before the save.)
C30_NoCandidateLost ==
    [][(last'.op = "facade_save"
          /\ Strip(last'.website) # <<>> /\ Strip(last'.email) # <<>>
          /\ Strip(last'.password) # <<>>) =>
        \A i \in 1..Len(rows) :
            (\/ ContainsNoCase(rows[i].website, last'.website)
             \/ ContainsNoCase(rows[i].email, last'.email)) =>
                \/ last'.exact_match = <<DupInfo(rows[i])>>
                \/ \E k \in 1..Len(last'.duplicates) :
                       last'.duplicates[k] = DupInfo(rows[i])]_vars

(***************************************************************************)
(* Properties of the concurrent program.                                   *)
(***************************************************************************)
\* C1: no two stored records have the same (website, email) pair, compared
\* case-sensitively, after any store saves, deletes and facade saves with
\* any resolution, in any interleaving.
C1_IdentityPairUnique ==
    \A i, j \in 1..Len(rows) :
        i # j => ~(rows[i].website = rows[j].website /\ rows[i].email = rows[j].email)

\* C1 witness: a save took the insert path for a pair that another save had
\* stored meanwhile, and the insert was rejected.
C1_Witness ==
    \E t \in Threads :
        /\ pc[t] = "idle"
        /\ loc[t].path = "insert"
        /\ loc[t].ret = "raise"
        /\ \E i \in 1..Len(rows) : HoldsIdentity(rows, i, loc[t].site, loc[t].email)

\* The stored records with the identity pair thread t's facade save entered,
\* letter case ignored.
PairRows(tbl, l) == SelectSeq(tbl, LAMBDA r : LowerEqual(r, l.website, l.email))

\* Thread t's facade save has made its duplicate check and not yet returned
\* from its write.
BetweenCheckAndWrite(t) ==
    /\ loc[t].op = "facade_save"
    /\ pc[t] \in {"dialog", "un_exec", "un_fetch", "sv_exec", "sv_fetch", "sv_write"}

\* C10: while one facade save is between its duplicate check and its own
\* write, the write of another facade save changes no record of that
\* identity pair.
C10_CheckToWriteExclusive ==
    [][\A t, u \in Threads :
          (/\ t # u
           /\ BetweenCheckAndWrite(t)
           /\ loc[u].op = "facade_save"
           /\ pc[u] = "sv_write" /\ pc'[u] = "idle")
          => PairRows(rows', loc[t]) = PairRows(rows, loc[t])]_vars

\* Thread t's save has fetched the answer of its existence check and is at
\* the write that follows it.
AtWrite(t) == pc[t] = "sv_write"

\* C11: no two concurrent saves of the same identity pair, not stored yet,
\* have both seen "does not exist" and both stand at the insert.
C11_ExistenceCheckAtomic ==
    \A t, u \in Threads :
        (/\ t # u
         /\ AtWrite(t) /\ AtWrite(u)
         /\ loc[t].site = loc[u].site /\ loc[t].email = loc[u].email
         /\ ~UniqueViolation(rows, loc[t].site, loc[t].email))
        => (loc[t].existing \/ loc[u].existing)

====
